---- MODULE Spec2Model ----
(***************************************************************************)
(* A model of the Statshunters route optimizer (src/backend):              *)
(*   - optimizer.py              TileOptimizer: greedy tile selection and  *)
(*                               nearest-neighbour path sequencing         *)
(*   - mapy_waypoint_reducer.py  MapyWaypointReducer                       *)
(*   - mapy_routing.py, routing.py, main.py  route generation and retries  *)
(*                                                                         *)
(* Geometry.  Coordinates are points <<lon, lat>> of an integer grid, one  *)
(* grid unit standing for 0.2 km, so that a zoom-14 tile is TileSize units *)
(* wide and high.  haversine_distance is the great-circle distance; on the *)
(* few kilometres the model spans it is the planar distance, which the     *)
(* model rounds up to whole grid units (rounding up keeps the triangle     *)
(* inequality and the symmetry of the distance).                           *)
(***************************************************************************)
EXTENDS Integers, Sequences, FiniteSets, TLC

VARIABLES
    \* ---- TileOptimizer (optimizer.py) ----
    visited_tiles,      \* self.visited_tiles
    all_tiles,          \* self.all_tiles
    start_point,        \* start_point argument
    target_distance,    \* target_distance argument (grid units)
    max_tiles,          \* max_tiles argument
    prefer_unvisited,   \* prefer_unvisited argument
    opc,                \* position of the optimizer call
    tile_coords,        \* optimize_tile_coverage: tile_coords with tile_weights
    weighted_candidates,\* _greedy_tile_selection: candidates not yet removed
    used_indices,       \* _greedy_tile_selection: used_indices
    selected,           \* _greedy_tile_selection: selected
    remaining_distance, \* _greedy_tile_selection: remaining_distance
    current_pos,        \* _greedy_tile_selection: current_pos
    path_start,         \* _optimize_path: start
    path_waypoints,     \* _optimize_path: waypoints (the argument, kept)
    unvisited,          \* _optimize_path: unvisited
    optimized,          \* _optimize_path: optimized
    opt_result,         \* value returned by the optimizer call
    \* ---- MapyWaypointReducer (mapy_waypoint_reducer.py) ----
    r_waypoints,        \* reduce_waypoints: waypoints
    r_target_distance,  \* reduce_waypoints: target_distance (km)
    r_strategy,         \* reduce_waypoints: strategy argument
    r_chosen,           \* reduce_waypoints: strategy after the auto selection
    rpc,                \* position of the reducer call
    important_indices,  \* _corridor_waypoints: important_indices
    r_result,           \* outcome of reduce_waypoints: a returned list or a raise
    \* ---- route generation (main.py, mapy_routing.py, routing.py) ----
    q_layer,            \* who makes the top-level call: the request handler or a caller of the service
    q_service,          \* the routing service the factory returned
    q_bike_valid,       \* bike_type in self.PROFILES
    q_validate,         \* validate_waypoints argument of the top-level call
    q_waypoints,        \* the waypoints planned for the request
    q_pc,               \* position of the request
    q_stack,            \* waypoints of the generate_route invocations in progress
    q_calls,            \* the lists the top level passed to generate_route, in order
    q_sent,             \* the lists sent to the routing backend, in order
    q_errors,           \* how each top-level generate_route call ended
    q_outcome,          \* how the request ended
    \* ---- MapyWaypointReducer.estimate_route_quality ----
    e_original,         \* original_waypoints
    e_reduced,          \* reduced_waypoints
    e_pc,               \* position of the call
    e_quality,          \* the dictionary returned, or the raise
    \* ---- TileOptimizer.tile_to_center_with_offset called on its own ----
    c_tile,             \* (tile_x, tile_y)
    c_road_bias,        \* road_bias
    c_pc,               \* position of the call
    c_result,           \* the coordinate returned
    \* ---- the server process (main.py, routing_factory.py) ----
    s_hash,             \* hash(gpx_content) % 1000000 of this process
    s_factory,          \* routing_factory: the service instances it holds
    s_next_instance,    \* identity the next constructed object gets
    s_temp,             \* the files of the directory temp/
    s_requests,         \* the planning requests answered so far
    s_download,         \* the answer to the last download request
    \* ---- MapyRouteService._create_fallback_waypoints called on its own ----
    f_waypoints,        \* waypoints
    f_pc,               \* position of the call
    f_result            \* the list returned

optVars == <<visited_tiles, all_tiles, start_point, target_distance, max_tiles,
             prefer_unvisited, opc, tile_coords, weighted_candidates, used_indices,
             selected, remaining_distance, current_pos, path_start, path_waypoints,
             unvisited, optimized, opt_result>>

redVars == <<r_waypoints, r_target_distance, r_strategy, r_chosen, rpc,
             important_indices, r_result>>

routeVars == <<q_layer, q_service, q_bike_valid, q_validate, q_waypoints, q_pc,
               q_stack, q_calls, q_sent, q_errors, q_outcome>>

qualityVars == <<e_original, e_reduced, e_pc, e_quality>>

centerVars == <<c_tile, c_road_bias, c_pc, c_result>>

serverVars == <<s_hash, s_factory, s_next_instance, s_temp, s_requests, s_download>>

fallbackVars == <<f_waypoints, f_pc, f_result>>

vars == <<optVars, redVars, routeVars, qualityVars, centerVars, serverVars,
          fallbackVars>>

\* the variables a call of one component leaves alone
nonOptVars == <<redVars, routeVars, qualityVars, centerVars, serverVars,
    fallbackVars>>
nonRedVars == <<optVars, routeVars, qualityVars, centerVars, serverVars,
    fallbackVars>>
nonRouteVars == <<optVars, redVars, qualityVars, centerVars, serverVars,
    fallbackVars>>
nonQualityVars == <<optVars, redVars, routeVars, centerVars, serverVars,
    fallbackVars>>
nonCenterVars == <<optVars, redVars, routeVars, qualityVars, serverVars,
    fallbackVars>>
nonFallbackVars == <<optVars, redVars, routeVars, qualityVars, centerVars, serverVars>>
nonServerVars == <<optVars, redVars, routeVars, qualityVars, centerVars,
    fallbackVars>>

(***************************************************************************)
(* Bounds of the model.                                                    *)
(***************************************************************************)
\* largest max_tiles a planning request asks for
MaxTilesBound == 3
\* longest waypoint list handed directly to _optimize_path
MaxPathLen == 3

(***************************************************************************)
(* Sequence helpers.                                                       *)
(***************************************************************************)
Range(s) == {s[i] : i \in 1..Len(s)}

RemoveAt(s, i) == [k \in 1..(Len(s) - 1) |-> IF k < i THEN s[k] ELSE s[k + 1]]

Count(s, x) == Cardinality({i \in 1..Len(s) : s[i] = x})

IsPermutation(s, t) ==
    /\ Len(s) = Len(t)
    /\ \A x \in Range(s) \cup Range(t) : Count(s, x) = Count(t, x)

Abs(n) == IF n < 0 THEN -n ELSE n

(***************************************************************************)
(* optimizer.py: geometry.                                                 *)
(***************************************************************************)
\* width and height of a tile in grid units (bounds.east - bounds.west)
TileSize == 8

\* the tiles the tile source can report: a column of three tiles west of
\* the start and the tile the start lies in
TileUniverse == {<<0, 0>>, <<0, 1>>, <<0, 2>>, <<1, 1>>}

SqrtSpan == 8 * TileSize

\* least r with r * r >= n
CeilSqrtTable ==
    [n \in 0..(2 * SqrtSpan * SqrtSpan) |->
        CHOOSE r \in 0..(2 * SqrtSpan) :
            /\ r * r >= n
            /\ \A q \in 0..(r - 1) : q * q < n]

\* TileOptimizer.haversine_distance
haversine_distance(coord1, coord2) ==
    LET dlon == coord2[1] - coord1[1]
        dlat == coord2[2] - coord1[2]
    IN  CeilSqrtTable[dlon * dlon + dlat * dlat]

\* TileOptimizer.tile_to_center: the midpoint of the tile's bounds; the
\* latitude falls as tile_y grows
tile_to_center(tile) ==
    <<TileSize * tile[1] + TileSize \div 2, -(TileSize * tile[2] + TileSize \div 2)>>

\* offsets of up to half a tile: (random.random() - 0.5) * tile_width
OffsetRange_half_tile == (-(TileSize \div 2))..(TileSize \div 2 - 1)

\* the values (random.random() - 0.5) * tile_width * 0.5 can take on the
\* grid: the half-open interval [-TileSize/4, TileSize/4)
OffsetRange == (-(TileSize \div 4))..(TileSize \div 4 - 1)

\* TileOptimizer.tile_to_center_with_offset, given the two random offsets
tile_to_center_with_offset(tile, road_bias, offset) ==
    LET c == tile_to_center(tile)
    IN  IF road_bias THEN <<c[1] + offset[1], c[2] + offset[2]>> ELSE c

\* total length of a list of coordinates traversed in order
PathLength(p) ==
    LET RECURSIVE Sum(_)
        Sum(i) == IF i >= Len(p) THEN 0
                  ELSE haversine_distance(p[i], p[i + 1]) + Sum(i + 1)
    IN  Sum(1)

(***************************************************************************)
(* optimizer.py: TileOptimizer.optimize_tile_coverage.                     *)
(***************************************************************************)
\* start points of a planning request: the centre of tile <<1, 1>> and a
\* point on the border between tiles <<0, 1>> and <<1, 1>>
StartPoints == {<<12, -12>>, <<8, -10>>}

\* target distances of a planning request, in grid units
Budgets == {6, 24, 40}

\* the random offsets tile_to_center_with_offset draws for a candidate
JitterChoices == {<<0, 0>>, <<-2, 1>>}

\* self.unvisited_tiles = all_tiles - visited_tiles
unvisited_tiles == all_tiles \ visited_tiles

\* the pool without the prefer_unvisited switch
tiles_to_consider_all == all_tiles

\* tiles_to_consider = self.unvisited_tiles if prefer_unvisited else self.all_tiles
tiles_to_consider == IF prefer_unvisited THEN unvisited_tiles ELSE all_tiles

\* weight = 2.0 if (tile_x, tile_y) in self.unvisited_tiles else 1.0
tile_weight(tile) == IF tile \in unvisited_tiles THEN 2 ELSE 1

\* tile_coords / tile_weights, one entry per tile, for the offsets drawn
tile_candidates(jitter) ==
    {[coord |-> tile_to_center_with_offset(t, TRUE, jitter[t]),
      weight |-> tile_weight(t),
      idx |-> t] : t \in tiles_to_consider}

\* nearby with the whole target distance as the radius
nearby_full_radius(cands, start, target) ==
    {c \in cands : haversine_distance(start, c.coord) <= target}

\* nearby_indices: d <= max_radius, where max_radius = target_distance / 2
nearby(cands, start, target) ==
    {c \in cands : 2 * haversine_distance(start, c.coord) <= target}

(***************************************************************************)
(* optimizer.py: TileOptimizer._greedy_tile_selection.                     *)
(***************************************************************************)
\* feasible_scores without the distance back to start
feasible_scores_no_return(cands, used, pos, start, remaining) ==
    {c \in cands :
        /\ c.idx \notin used
        /\ haversine_distance(pos, c.coord) <= remaining}

\* feasible_scores with < in place of <=
feasible_scores_strict(cands, used, pos, start, remaining) ==
    {c \in cands :
        /\ c.idx \notin used
        /\ haversine_distance(pos, c.coord) + haversine_distance(c.coord, start)
              < remaining}

\* the entries of scores: the unused candidates that can be visited with
\* enough distance left to return to start
feasible_scores(cands, used, pos, start, remaining) ==
    {c \in cands :
        /\ c.idx \notin used
        /\ haversine_distance(pos, c.coord) + haversine_distance(c.coord, start)
              <= remaining}

\* score = weight / (dist + 0.1); 0.1 km is half a grid unit, so the score
\* of a is greater than that of b iff wa * (2 db + 1) > wb * (2 da + 1)
score_cmp(a, b, pos) ==
    LET da == haversine_distance(pos, a.coord)
        db == haversine_distance(pos, b.coord)
    IN  a.weight * (2 * db + 1) - b.weight * (2 * da + 1)

TupleGreater(x, y) == x[1] > y[1] \/ (x[1] = y[1] /\ x[2] > y[2])

\* the order of scores.sort(reverse=True) on (score, coord, dist, idx)
sorts_before(a, b, pos) ==
    \/ score_cmp(a, b, pos) > 0
    \/ /\ score_cmp(a, b, pos) = 0
       /\ \/ TupleGreater(a.coord, b.coord)
          \/ /\ a.coord = b.coord
             /\ TupleGreater(a.idx, b.idx)

\* the nearest entry of scores, whatever its weight
best_candidate_nearest(scores, pos) ==
    CHOOSE a \in scores :
        \A b \in scores :
            haversine_distance(pos, a.coord) <= haversine_distance(pos, b.coord)

\* scores[0] after the sort
best_candidate(scores, pos) ==
    CHOOSE a \in scores : \A b \in scores \ {a} : sorts_before(a, b, pos)

OptimizeTileCoverage ==
    /\ opc = "call"
    /\ \E jitter \in [tiles_to_consider -> JitterChoices] :
         LET coords == tile_candidates(jitter)
             near == nearby(coords, start_point, target_distance)
         IN  /\ tile_coords' = coords
             /\ \/ /\ coords = {}
                   /\ opt_result' = <<start_point>>
                   /\ opc' = "done"
                   /\ UNCHANGED <<weighted_candidates, used_indices, selected,
                                  remaining_distance, current_pos>>
                \/ /\ coords # {}
                   /\ near = {}
                   /\ opt_result' = <<start_point>>
                   /\ opc' = "done"
                   /\ UNCHANGED <<weighted_candidates, used_indices, selected,
                                  remaining_distance, current_pos>>
                \/ /\ near # {}
                   /\ weighted_candidates' = near
                   /\ used_indices' = {}
                   /\ selected' = <<>>
                   /\ remaining_distance' = target_distance
                   /\ current_pos' = start_point
                   /\ opc' = "greedy"
                   /\ UNCHANGED opt_result
    /\ UNCHANGED <<visited_tiles, all_tiles, start_point, target_distance,
                   max_tiles, prefer_unvisited, path_start, path_waypoints,
                   unvisited, optimized>>
    /\ UNCHANGED nonOptVars

\* the loop condition with <= in place of <
greedy_loop_condition_off_by_one(sel, cap, cands) == Len(sel) <= cap /\ cands # {}

\* while len(selected) < max_tiles and weighted_candidates
greedy_loop_condition(sel, cap, cands) == Len(sel) < cap /\ cands # {}

\* one iteration of the while loop that selects a tile
GreedyPick ==
    /\ opc = "greedy"
    /\ greedy_loop_condition(selected, max_tiles, weighted_candidates)
    /\ LET scores == feasible_scores(weighted_candidates, used_indices,
                                     current_pos, start_point, remaining_distance)
       IN  /\ scores # {}
           /\ LET best == best_candidate(scores, current_pos)
                  best_dist == haversine_distance(current_pos, best.coord)
              IN  /\ selected' = Append(selected, best.coord)
                  /\ used_indices' = used_indices \cup {best.idx}
                  /\ remaining_distance' = remaining_distance - best_dist
                  /\ current_pos' = best.coord
                  /\ weighted_candidates' =
                         {c \in weighted_candidates : c.idx # best.idx}
    /\ UNCHANGED <<visited_tiles, all_tiles, start_point, target_distance,
                   max_tiles, prefer_unvisited, tile_coords, opc, path_start, path_waypoints,
                   unvisited, optimized, opt_result>>
    /\ UNCHANGED nonOptVars

\* the loop ends (condition false, or break on empty scores); the selection
\* is handed to _optimize_path
GreedyReturn ==
    /\ opc = "greedy"
    /\ \/ ~greedy_loop_condition(selected, max_tiles, weighted_candidates)
       \/ feasible_scores(weighted_candidates, used_indices, current_pos,
                          start_point, remaining_distance) = {}
    /\ path_start' = start_point
    /\ path_waypoints' = selected
    /\ opc' = "path_call"
    /\ UNCHANGED <<visited_tiles, all_tiles, start_point, target_distance,
                   max_tiles, prefer_unvisited, tile_coords, weighted_candidates, used_indices,
                   selected, remaining_distance, current_pos, unvisited,
                   optimized, opt_result>>
    /\ UNCHANGED nonOptVars

(***************************************************************************)
(* optimizer.py: TileOptimizer._optimize_path.                             *)
(***************************************************************************)
\* distances.index(max(distances)): the first index of a farthest point
farthest_idx(current, points) ==
    CHOOSE i \in 1..Len(points) :
        /\ \A k \in 1..Len(points) :
              haversine_distance(current, points[i])
                 >= haversine_distance(current, points[k])
        /\ \A k \in 1..(i - 1) :
              haversine_distance(current, points[k])
                 < haversine_distance(current, points[i])

\* distances.index(min(distances)): the first index of a nearest point
nearest_idx(current, points) ==
    CHOOSE i \in 1..Len(points) :
        /\ \A k \in 1..Len(points) :
              haversine_distance(current, points[i])
                 <= haversine_distance(current, points[k])
        /\ \A k \in 1..(i - 1) :
              haversine_distance(current, points[k])
                 > haversine_distance(current, points[i])

\* removal of the nearest point by value: every equal point goes with it
pop_nearest_by_value(points, i) == SelectSeq(points, LAMBDA p : p # points[i])

\* unvisited.pop(nearest_idx)
pop_nearest(points, i) == RemoveAt(points, i)

OptimizePathCall ==
    /\ opc = "path_call"
    /\ \/ /\ Len(path_waypoints) <= 1
          /\ opt_result' = <<path_start>> \o path_waypoints \o <<path_start>>
          /\ opc' = "done"
          /\ UNCHANGED <<unvisited, optimized>>
       \/ /\ Len(path_waypoints) > 1
          /\ unvisited' = path_waypoints
          /\ optimized' = <<path_start>>
          /\ opc' = "path"
          /\ UNCHANGED opt_result
    /\ UNCHANGED <<visited_tiles, all_tiles, start_point, target_distance,
                   max_tiles, prefer_unvisited, tile_coords, weighted_candidates, used_indices,
                   selected, remaining_distance, current_pos, path_start,
                   path_waypoints>>
    /\ UNCHANGED nonOptVars

\* one iteration of "while unvisited"; current is the last element of optimized
NearestNeighborStep ==
    /\ opc = "path"
    /\ unvisited # <<>>
    /\ LET current == optimized[Len(optimized)]
           i == nearest_idx(current, unvisited)
       IN  /\ optimized' = Append(optimized, unvisited[i])
           /\ unvisited' = pop_nearest(unvisited, i)
    /\ UNCHANGED <<visited_tiles, all_tiles, start_point, target_distance,
                   max_tiles, prefer_unvisited, tile_coords, opc, weighted_candidates,
                   used_indices, selected, remaining_distance, current_pos,
                   path_start, path_waypoints, opt_result>>
    /\ UNCHANGED nonOptVars

\* optimized.append(start); return optimized
OptimizePathReturn ==
    /\ opc = "path"
    /\ unvisited = <<>>
    /\ optimized' = Append(optimized, path_start)
    /\ opt_result' = optimized'
    /\ opc' = "done"
    /\ UNCHANGED <<visited_tiles, all_tiles, start_point, target_distance,
                   max_tiles, prefer_unvisited, tile_coords, weighted_candidates, used_indices,
                   selected, remaining_distance, current_pos, path_start,
                   path_waypoints, unvisited>>
    /\ UNCHANGED nonOptVars

(***************************************************************************)
(* Specification of a planning call of the optimizer.                      *)
(***************************************************************************)
\* the optimizer before a call
OptimizerIdle ==
    /\ tile_coords = {}
    /\ weighted_candidates = {}
    /\ used_indices = {}
    /\ selected = <<>>
    /\ remaining_distance = 0
    /\ current_pos = start_point
    /\ unvisited = <<>>
    /\ optimized = <<>>
    /\ opt_result = <<>>

\* no optimizer call is made
OptimizerUnused ==
    /\ visited_tiles = {}
    /\ all_tiles = {}
    /\ start_point = <<0, 0>>
    /\ target_distance = 0
    /\ max_tiles = 0
    /\ prefer_unvisited = TRUE
    /\ opc = "unused"
    /\ path_start = start_point
    /\ path_waypoints = <<>>
    /\ OptimizerIdle

\* no reducer call is made
ReducerUnused ==
    /\ r_waypoints = <<>>
    /\ r_target_distance = 0
    /\ r_strategy = "auto"
    /\ r_chosen = "auto"
    /\ rpc = "unused"
    /\ important_indices = <<>>
    /\ r_result = [kind |-> "none", value |-> <<>>]

\* no route is generated
RoutingUnused ==
    /\ q_layer = "unused"
    /\ q_service = "unused"
    /\ q_bike_valid = TRUE
    /\ q_validate = FALSE
    /\ q_waypoints = <<>>
    /\ q_pc = "unused"
    /\ q_stack = <<>>
    /\ q_calls = <<>>
    /\ q_sent = <<>>
    /\ q_errors = <<>>
    /\ q_outcome = [result |-> "none"]

\* no route quality is estimated
QualityUnused ==
    /\ e_original = <<>>
    /\ e_reduced = <<>>
    /\ e_pc = "unused"
    /\ e_quality = [kind |-> "none"]

\* _create_fallback_waypoints is not called on its own
FallbackUnused ==
    /\ f_waypoints = <<>>
    /\ f_pc = "unused"
    /\ f_result = <<>>

\* the server process is not looked at
ServerUnused ==
    /\ s_hash = <<>>
    /\ s_factory = <<>>
    /\ s_next_instance = 0
    /\ s_temp = <<>>
    /\ s_requests = <<>>
    /\ s_download = [kind |-> "none"]

\* tile_to_center_with_offset is not called on its own
CenterUnused ==
    /\ c_tile = <<0, 0>>
    /\ c_road_bias = FALSE
    /\ c_pc = "unused"
    /\ c_result = <<0, 0>>

\* the components outside the optimizer, the reducer and the route
\* generation are not in use
OthersUnused == QualityUnused /\ CenterUnused /\ ServerUnused /\ FallbackUnused

InitOptimizer ==
    /\ visited_tiles \in SUBSET TileUniverse
    /\ all_tiles \in SUBSET TileUniverse
    /\ start_point \in StartPoints
    /\ target_distance \in Budgets
    /\ max_tiles \in 0..MaxTilesBound
    /\ prefer_unvisited \in BOOLEAN
    /\ opc = "call"
    /\ path_start = start_point
    /\ path_waypoints = <<>>
    /\ OptimizerIdle
    /\ ReducerUnused
    /\ RoutingUnused
    /\ OthersUnused

NextOptimizer ==
    \/ OptimizeTileCoverage
    \/ GreedyPick
    \/ GreedyReturn
    \/ OptimizePathCall
    \/ NearestNeighborStep
    \/ OptimizePathReturn

SpecOptimizer == InitOptimizer /\ [][NextOptimizer]_vars

(***************************************************************************)
(* Specification of _optimize_path called on any list of waypoints.        *)
(***************************************************************************)
\* coordinates handed to _optimize_path
PathPoints == {<<0, 0>>, <<3, 0>>, <<0, 4>>, <<6, 8>>}

SeqsUpTo(S, n) == UNION {[1..k -> S] : k \in 0..n}

InitPath ==
    /\ path_start \in PathPoints
    /\ path_waypoints \in SeqsUpTo(PathPoints, MaxPathLen)
    /\ opc = "path_call"
    /\ visited_tiles = {}
    /\ all_tiles = {}
    /\ start_point = path_start
    /\ target_distance = 0
    /\ max_tiles = 0
    /\ prefer_unvisited = TRUE
    /\ OptimizerIdle
    /\ ReducerUnused
    /\ RoutingUnused
    /\ OthersUnused

NextPath ==
    \/ OptimizePathCall
    \/ NearestNeighborStep
    \/ OptimizePathReturn

SpecPath == InitPath /\ [][NextPath]_vars

(***************************************************************************)
(* Claims about the optimizer.                                             *)
(***************************************************************************)
Last(s) == s[Len(s)]

Middle(s) == SubSeq(s, 2, Len(s) - 1)

\* C3: the loop optimize_tile_coverage returns, traversed in the returned
\* order, is no longer than target_distance, for both settings of
\* prefer_unvisited.
C3_LoopWithinBudget ==
    opc = "done" => PathLength(opt_result) <= target_distance

\* the part of C3 that the code keeps: with prefer_unvisited every candidate
\* has the same weight and the returned loop stays within the budget
C3_LoopWithinBudgetUnvisitedOnly ==
    (opc = "done" /\ prefer_unvisited) => PathLength(opt_result) <= target_distance

\* C4: after every pick of _greedy_tile_selection, the distance travelled
\* along the picks plus the distance from the latest pick back to start is
\* at most the budget; the remaining budget is the budget less the distance
\* travelled, is at least the return leg, and is never negative.
C4_GreedyBookkeeping ==
    (opc = "greedy" /\ selected # <<>>) =>
        LET travelled == PathLength(<<start_point>> \o selected)
            return_leg == haversine_distance(Last(selected), start_point)
        IN  /\ travelled + return_leg <= target_distance
            /\ remaining_distance = target_distance - travelled
            /\ remaining_distance >= return_leg
            /\ remaining_distance >= 0

\* a second pick was made, away from start, with part of the budget used
C4_Witness ==
    /\ opc = "greedy"
    /\ Len(selected) >= 2
    /\ Last(selected) # start_point
    /\ remaining_distance < target_distance

\* C5 as stated: for non-empty tile sets the list optimize_tile_coverage
\* returns has at least 1 and at most max_tiles elements.
C5_LengthWithinCap ==
    (opc = "done" /\ visited_tiles # {} /\ all_tiles # {} /\ max_tiles >= 1) =>
        (1 <= Len(opt_result) /\ Len(opt_result) <= max_tiles)

\* C5 amended: the returned list has at least 1 and at most max_tiles + 2
\* elements (start, at most max_tiles selected waypoints, start), and the
\* greedy selection holds at most max_tiles waypoints.
C5_LengthWithinCapPlusTwo ==
    /\ Len(selected) <= max_tiles
    /\ (opc = "done" /\ visited_tiles # {} /\ all_tiles # {}) =>
           (1 <= Len(opt_result) /\ Len(opt_result) <= max_tiles + 2)

\* the cap is reached: max_tiles waypoints between the two start points
C5_Witness ==
    /\ opc = "done"
    /\ visited_tiles # {}
    /\ max_tiles >= 2
    /\ Len(selected) = max_tiles
    /\ Len(opt_result) = max_tiles + 2

\* C6: _optimize_path returns a list of the input length + 2 whose first
\* and last elements are start and whose middle is a permutation, as a
\* multiset, of the input waypoints.
C6_PathIsLoopOverInput ==
    opc = "done" =>
        /\ Len(opt_result) = Len(path_waypoints) + 2
        /\ opt_result[1] = path_start
        /\ Last(opt_result) = path_start
        /\ IsPermutation(Middle(opt_result), path_waypoints)

\* a list with a repeated point went through the nearest-neighbour loop
C6_Witness ==
    /\ opc = "done"
    /\ Len(path_waypoints) = 3
    /\ Cardinality(Range(path_waypoints)) = 2
    /\ Middle(opt_result) # path_waypoints

\* a list of length 0 or 1 was returned between two start points
C6_WitnessShort ==
    /\ opc = "done"
    /\ Len(path_waypoints) = 1
    /\ Len(opt_result) = 3

\* C10: when the candidate pool is empty or no candidate lies within
\* target_distance / 2 of start, optimize_tile_coverage returns exactly
\* <<start>>; every call returns a non-empty list.
C10_StartOnlyWhenNothingNear ==
    opc = "done" =>
        /\ opt_result # <<>>
        /\ (\A c \in tile_coords :
                2 * haversine_distance(start_point, c.coord) > target_distance)
              => opt_result = <<start_point>>

\* there were candidates, all farther than target_distance / 2
C10_Witness ==
    /\ opc = "done"
    /\ tile_coords # {}
    /\ \A c \in tile_coords :
           2 * haversine_distance(start_point, c.coord) > target_distance
    /\ opt_result = <<start_point>>

\* the pool was empty although tiles were reported
C10_WitnessEmptyPool ==
    /\ opc = "done"
    /\ all_tiles # {}
    /\ tile_coords = {}
    /\ opt_result = <<start_point>>

(***************************************************************************)
(* mapy_waypoint_reducer.py: MapyWaypointReducer.                          *)
(*                                                                         *)
(* Positions in a list are 1-based here and 0-based in the source: the     *)
(* source's index i is position i + 1.                                     *)
(***************************************************************************)
\* a limit of 14
MAPY_MAX_WAYPOINTS_fourteen == 15 - 1

\* MAPY_MAX_WAYPOINTS
MAPY_MAX_WAYPOINTS == 15

\* longest waypoint list handed to reduce_waypoints
MaxWaypoints == 17

\* longest pattern of steps that is repeated along an input list
StepPeriod == 3

\* the steps from one waypoint to the next, each of a whole length: two
\* north-east steps 16 degrees apart, none (a repeated point) and a long
\* step north
Steps == {<<4, 3>>, <<3, 4>>, <<0, 0>>, <<0, 10>>}

\* the patterns of steps an input list repeats
StepPatterns == UNION {[1..k -> Steps] : k \in 1..StepPeriod}

\* the list of n waypoints that starts at the origin and repeats pattern
waypoint_list(pattern, n) ==
    LET RECURSIVE At(_)
        At(i) == IF i = 1 THEN <<0, 0>>
                 ELSE LET prev == At(i - 1)
                          step == pattern[((i - 2) % Len(pattern)) + 1]
                      IN  <<prev[1] + step[1], prev[2] + step[2]>>
    IN  [i \in 1..n |-> At(i)]

\* target distances on both sides of the strategy thresholds
Distances == {29, 30, 74, 75}

Strategies == {"auto", "clustering", "sampling", "corridor", "nearest"}

\* MapyWaypointReducer._haversine_distance
reducer_haversine_distance(point1, point2) ==
    LET dlon == point2[1] - point1[1]
        dlat == point2[2] - point1[2]
    IN  CeilSqrtTable[dlon * dlon + dlat * dlat]

\* _select_strategy with the thresholds taken inclusively
select_strategy_inclusive(distance, waypoint_count) ==
    IF distance <= 30 THEN "clustering"
    ELSE IF distance <= 75 THEN "sampling"
    ELSE "corridor"

\* MapyWaypointReducer._select_strategy
select_strategy(distance, waypoint_count) ==
    IF distance < 30 THEN "clustering"
    ELSE IF distance < 75 THEN "sampling"
    ELSE "corridor"

\* the sorted list of the elements of a set of integers
SortedSeq(S) ==
    [k \in 1..Cardinality(S) |->
        CHOOSE x \in S : Cardinality({y \in S : y < x}) = k - 1]

\* cumulative_distances: the along-path distance of every position
cumulative_distances(waypoints) ==
    LET RECURSIVE Cum(_)
        Cum(j) == IF j = 1 THEN 0
                  ELSE Cum(j - 1)
                         + reducer_haversine_distance(waypoints[j - 1], waypoints[j])
    IN  [j \in 1..Len(waypoints) |-> Cum(j)]

\* closest_idx with "diff <= min_diff": the last of the nearest positions
closest_idx_last(cum, i, n_middle) ==
    LET total == cum[Len(cum)]
        diff(j) == Abs((n_middle + 1) * cum[j] - i * total)
    IN  CHOOSE j \in 1..Len(cum) :
            /\ \A k \in 1..Len(cum) : diff(j) <= diff(k)
            /\ \A k \in (j + 1)..Len(cum) : diff(k) > diff(j)

\* closest_idx for the i-th target (i / (n_middle + 1)) * total_distance:
\* the first position whose cumulative distance is nearest to the target
closest_idx(cum, i, n_middle) ==
    LET total == cum[Len(cum)]
        diff(j) == Abs((n_middle + 1) * cum[j] - i * total)
    IN  CHOOSE j \in 1..Len(cum) :
            /\ \A k \in 1..Len(cum) : diff(j) <= diff(k)
            /\ \A k \in 1..(j - 1) : diff(k) > diff(j)

\* selected_indices of _sample_waypoints after the sort: the closest
\* positions that are interior, each once
sample_indices(waypoints) ==
    LET cum == cumulative_distances(waypoints)
        n_middle == MAPY_MAX_WAYPOINTS - 2
        closest == {closest_idx(cum, i, n_middle) : i \in 1..n_middle}
    IN  SortedSeq({j \in closest : 1 < j /\ j < Len(waypoints)})

\* _sample_waypoints without the end point in its result
sample_waypoints_without_end(waypoints) ==
    IF Len(waypoints) <= MAPY_MAX_WAYPOINTS THEN waypoints
    ELSE LET idx == sample_indices(waypoints)
         IN  <<waypoints[1]>> \o [k \in 1..Len(idx) |-> waypoints[idx[k]]]

\* MapyWaypointReducer._sample_waypoints
sample_waypoints(waypoints) ==
    IF Len(waypoints) <= MAPY_MAX_WAYPOINTS THEN waypoints
    ELSE IF Len(waypoints) - 2 <= MAPY_MAX_WAYPOINTS - 2 THEN waypoints
    ELSE LET idx == sample_indices(waypoints)
         IN  <<waypoints[1]>> \o [k \in 1..Len(idx) |-> waypoints[idx[k]]]
                \o <<waypoints[Len(waypoints)]>>

\* cluster_centers_: n_clusters centres, whose coordinates the library
\* computes; the model keeps the k-th centre as a value <<0, 0, k>> of
\* three components, which no input point equals
cluster_centers(n_clusters) == [k \in 1..n_clusters |-> <<0, 0, k>>]

\* MapyWaypointReducer._cluster_waypoints; fit_ok tells whether KMeans.fit
\* returned or raised.  The except branch calls
\* self._sample_waypoints(waypoints, distance=50): the method has no
\* parameter named distance, so the call raises TypeError
cluster_waypoints(waypoints, fit_ok) ==
    IF Len(waypoints) <= MAPY_MAX_WAYPOINTS
        THEN [kind |-> "return", value |-> waypoints]
    ELSE IF Len(waypoints) - 2 <= MAPY_MAX_WAYPOINTS - 2
        THEN [kind |-> "return", value |-> waypoints]
    ELSE IF fit_ok
        THEN [kind |-> "return",
              value |-> <<waypoints[1]>> \o cluster_centers(MAPY_MAX_WAYPOINTS - 2)
                           \o <<waypoints[Len(waypoints)]>>]
    ELSE [kind |-> "raise", value |-> <<>>]

\* the direction of travel _calculate_bearing measures: the step itself,
\* and north (bearing 0) between two equal points
travel_direction(point1, point2) ==
    IF point1 = point2 THEN <<0, 1>>
    ELSE <<point2[1] - point1[1], point2[2] - point1[2]>>

\* bearing_change > 30 at position i: the angle between the two directions
\* exceeds 30 degrees, i.e. its cosine is below sqrt(3) / 2
significant_turn(waypoints, i) ==
    LET u == travel_direction(waypoints[i - 1], waypoints[i])
        v == travel_direction(waypoints[i], waypoints[i + 1])
        dot == u[1] * v[1] + u[2] * v[2]
        uu == u[1] * u[1] + u[2] * u[2]
        vv == v[1] * v[1] + v[2] * v[2]
    IN  dot <= 0 \/ 4 * dot * dot < 3 * uu * vv

\* important_indices as first built: start, the significant turns, end
turn_indices(waypoints) ==
    <<1>> \o SortedSeq({i \in 2..(Len(waypoints) - 1) : significant_turn(waypoints, i)})
        \o <<Len(waypoints)>>

Max(a, b) == IF a >= b THEN a ELSE b

Min(a, b) == IF a <= b THEN a ELSE b

\* middle_important[::max(1, step)][:n_middle]
stride_sample(middle_important, n_middle) ==
    LET step == Max(1, Len(middle_important) \div n_middle)
        taken == Min(n_middle, (Len(middle_important) + step - 1) \div step)
    IN  [k \in 1..taken |-> middle_important[(k - 1) * step + 1]]

\* important_indices when the gap-filling loop is entered
corridor_indices(waypoints) ==
    LET important == turn_indices(waypoints)
    IN  IF Len(important) > MAPY_MAX_WAYPOINTS
        THEN <<1>> \o stride_sample(SubSeq(important, 2, Len(important) - 1),
                                    MAPY_MAX_WAYPOINTS - 2)
                 \o <<Len(waypoints)>>
        ELSE important

\* the for loop of the gap filling: the first of the largest gaps
largest_gap_at(important) ==
    CHOOSE i \in 1..(Len(important) - 1) :
        /\ \A k \in 1..(Len(important) - 1) :
              important[i + 1] - important[i] >= important[k + 1] - important[k]
        /\ \A k \in 1..(i - 1) :
              important[k + 1] - important[k] < important[i + 1] - important[i]

\* the gap filling with the first gap that has room, whatever its size
fill_first_gap(important) ==
    LET i == CHOOSE k \in 1..(Len(important) - 1) :
                 /\ important[k + 1] - important[k] > 1
                 /\ \A j \in 1..(k - 1) : important[j + 1] - important[j] <= 1
    IN  SortedSeq(Range(important) \cup {(important[i] + important[i + 1]) \div 2})

\* the gap filling without important_indices.sort()
fill_largest_gap_unsorted(important) ==
    LET i == largest_gap_at(important)
        largest_gap == important[i + 1] - important[i]
        gap_middle == (important[i] + important[i + 1]) \div 2
    IN  IF largest_gap > 1 /\ gap_middle \notin Range(important)
        THEN Append(important, gap_middle)
        ELSE important

\* one iteration of the gap filling loop
fill_largest_gap(important) ==
    LET i == largest_gap_at(important)
        largest_gap == important[i + 1] - important[i]
        \* (a + b) // 2 on 0-based indices is this position
        gap_middle == (important[i] + important[i + 1]) \div 2
    IN  IF largest_gap > 1 /\ gap_middle \notin Range(important)
        THEN SortedSeq(Range(important) \cup {gap_middle})
        ELSE important

\* the loop condition with <= in place of the first <
fill_loop_condition_off_by_one(important, waypoints) ==
    Len(important) <= MAPY_MAX_WAYPOINTS /\ Len(important) < Len(waypoints)

\* while len(important_indices) < MAX and len(important_indices) < len(waypoints)
fill_loop_condition(important, waypoints) ==
    Len(important) < MAPY_MAX_WAYPOINTS /\ Len(important) < Len(waypoints)

\* MapyWaypointReducer.reduce_waypoints up to the call of the strategy;
\* the sampling and the clustering strategy run to their end, the corridor
\* strategy enters its gap-filling loop
ReduceWaypoints ==
    /\ rpc = "call"
    /\ \/ /\ Len(r_waypoints) <= MAPY_MAX_WAYPOINTS
          /\ r_result' = [kind |-> "return", value |-> r_waypoints]
          /\ rpc' = "done"
          /\ UNCHANGED <<r_chosen, important_indices>>
       \/ /\ Len(r_waypoints) > MAPY_MAX_WAYPOINTS
          /\ LET strategy == IF r_strategy = "auto"
                             THEN select_strategy(r_target_distance, Len(r_waypoints))
                             ELSE r_strategy
             IN  /\ r_chosen' = strategy
                 /\ \/ /\ strategy = "clustering"
                       /\ \E fit_ok \in BOOLEAN :
                            r_result' = cluster_waypoints(r_waypoints, fit_ok)
                       /\ rpc' = "done"
                       /\ UNCHANGED important_indices
                    \/ /\ strategy = "sampling"
                       /\ r_result' = [kind |-> "return",
                                       value |-> sample_waypoints(r_waypoints)]
                       /\ rpc' = "done"
                       /\ UNCHANGED important_indices
                    \/ /\ strategy = "corridor"
                       /\ important_indices' = corridor_indices(r_waypoints)
                       /\ rpc' = "corridor_fill"
                       /\ UNCHANGED r_result
                    \/ /\ strategy \notin {"clustering", "sampling", "corridor"}
                       /\ r_result' = [kind |-> "return",
                                       value |-> sample_waypoints(r_waypoints)]
                       /\ rpc' = "done"
                       /\ UNCHANGED important_indices
    /\ UNCHANGED <<r_waypoints, r_target_distance, r_strategy>>
    /\ UNCHANGED nonRedVars

\* _corridor_waypoints: one iteration of the gap-filling loop
CorridorFillStep ==
    /\ rpc = "corridor_fill"
    /\ fill_loop_condition(important_indices, r_waypoints)
    /\ important_indices' = fill_largest_gap(important_indices)
    /\ UNCHANGED <<r_waypoints, r_target_distance, r_strategy, r_chosen, rpc,
                   r_result>>
    /\ UNCHANGED nonRedVars

\* _corridor_waypoints: result = [waypoints[i] for i in important_indices]
CorridorReturn ==
    /\ rpc = "corridor_fill"
    /\ ~fill_loop_condition(important_indices, r_waypoints)
    /\ r_result' = [kind |-> "return",
                    value |-> [k \in 1..Len(important_indices) |->
                                  r_waypoints[important_indices[k]]]]
    /\ rpc' = "done"
    /\ UNCHANGED <<r_waypoints, r_target_distance, r_strategy, r_chosen,
                   important_indices>>
    /\ UNCHANGED nonRedVars

InitReducer ==
    /\ \E pattern \in StepPatterns, n \in 0..MaxWaypoints :
          r_waypoints = waypoint_list(pattern, n)
    /\ r_target_distance \in Distances
    /\ r_strategy \in Strategies
    /\ r_chosen = r_strategy
    /\ rpc = "call"
    /\ important_indices = <<>>
    /\ r_result = [kind |-> "none", value |-> <<>>]
    /\ OptimizerUnused
    /\ RoutingUnused
    /\ OthersUnused

NextReducer ==
    \/ ReduceWaypoints
    \/ CorridorFillStep
    \/ CorridorReturn

SpecReducer == InitReducer /\ [][NextReducer]_vars

(***************************************************************************)
(* Claims about the waypoint reducer.                                      *)
(***************************************************************************)
\* C1: for an input of at least 2 waypoints, any target distance and any
\* strategy (auto, clustering, sampling, corridor or an unknown name), the
\* list reduce_waypoints returns has at least 2 and at most
\* MAPY_MAX_WAYPOINTS points.
C1_OutputLengthBounded ==
    (rpc = "done" /\ r_result.kind = "return" /\ Len(r_waypoints) >= 2) =>
        /\ Len(r_result.value) >= 2
        /\ Len(r_result.value) <= MAPY_MAX_WAYPOINTS

\* a list longer than the limit was reduced to fewer points than the limit
C1_Witness ==
    /\ rpc = "done"
    /\ r_result.kind = "return"
    /\ Len(r_waypoints) > MAPY_MAX_WAYPOINTS
    /\ Len(r_result.value) < MAPY_MAX_WAYPOINTS

\* C2: for an input of at least 2 waypoints, under each of the strategies
\* clustering, sampling and corridor, the first element of the output is
\* the first input waypoint and the last element is the last one.
C2_EndpointsPreserved ==
    (rpc = "done" /\ r_result.kind = "return" /\ Len(r_waypoints) >= 2) =>
        /\ r_result.value[1] = r_waypoints[1]
        /\ r_result.value[Len(r_result.value)] = r_waypoints[Len(r_waypoints)]

\* a reduction under the named strategy ended with the endpoints in place
C2_WitnessOf(strategy) ==
    /\ rpc = "done"
    /\ r_result.kind = "return"
    /\ r_chosen = strategy
    /\ Len(r_waypoints) > MAPY_MAX_WAYPOINTS
    /\ r_waypoints[1] # r_waypoints[Len(r_waypoints)]
    /\ Len(r_result.value) > 2
    /\ r_result.value[1] = r_waypoints[1]
    /\ r_result.value[Len(r_result.value)] = r_waypoints[Len(r_waypoints)]

C2_Witness == C2_WitnessOf("corridor")

C2_WitnessClustering == C2_WitnessOf("clustering")

C2_WitnessSampling == C2_WitnessOf("sampling")

(***************************************************************************)
(* Route generation: the /api/route handler of main.py and the two routing *)
(* services, MapyRouteService (mapy_routing.py) and RouteService           *)
(* (routing.py).                                                           *)
(*                                                                         *)
(* Waypoints are points of a grid whose unit is one kilometre, with        *)
(* KmPerDegree units to a degree.  The routing backend is the environment: *)
(* it answers every request with any of the responses the service tells    *)
(* apart.                                                                  *)
(***************************************************************************)
\* km_to_deg = 1 / 111
KmPerDegree == 111

\* longest waypoint list a route is requested for
MaxRouteWaypoints == 16

\* longest pattern of steps along a list a route is requested for
RouteStepPeriod == 2

\* length of the lists that exceed the 50 waypoints of OpenRouteService
LongRouteLen == 51

\* the steps between the waypoints of a route: none, 5 km and 10 km
RouteSteps == {<<0, 0>>, <<3, 4>>, <<0, 10>>}

RoutePatterns == UNION {[1..k -> RouteSteps] : k \in 1..RouteStepPeriod}

\* a point beyond 85 degrees of latitude
PolarPoint == <<0, 86 * KmPerDegree>>

\* the lists a caller hands to a service: lists along a pattern, and short
\* lists that may hold points outside the valid range
ServiceWaypointLists ==
    {waypoint_list(pattern, n) : pattern \in RoutePatterns, n \in 0..MaxRouteWaypoints}
        \cup {waypoint_list(pattern, LongRouteLen) : pattern \in RoutePatterns}
        \cup (SeqsUpTo({<<0, 0>>, <<3, 4>>, PolarPoint}, 3) \ {<<>>})

\* the loop of n waypoints that follows pattern from the origin and
\* returns the same way
loop_list(pattern, n) ==
    LET out == waypoint_list(pattern, (n + 1) \div 2)
    IN  [i \in 1..n |-> out[Min(i, n + 1 - i)]]

\* the lists optimize_tile_coverage hands to the request handler: the start
\* point alone, or a loop that leaves the start point and returns to it
PlannedWaypointLists ==
    {<<<<0, 0>>>>}
        \cup {loop_list(pattern, n) :
                pattern \in RoutePatterns, n \in 2..MaxRouteWaypoints}
        \cup {loop_list(pattern, LongRouteLen) : pattern \in RoutePatterns}

\* the whole of _corridor_waypoints' gap-filling loop
RECURSIVE fill_gaps(_, _)
fill_gaps(important, waypoints) ==
    IF fill_loop_condition(important, waypoints)
    THEN fill_gaps(fill_largest_gap(important), waypoints)
    ELSE important

\* MapyWaypointReducer._corridor_waypoints
corridor_waypoints(waypoints) ==
    IF Len(waypoints) <= MAPY_MAX_WAYPOINTS THEN waypoints
    ELSE LET important == fill_gaps(corridor_indices(waypoints), waypoints)
         IN  [k \in 1..Len(important) |-> waypoints[important[k]]]

\* MapyWaypointReducer.reduce_waypoints as one function; fit_ok tells
\* whether KMeans.fit returned
reduce_waypoints(waypoints, target_distance_km, strategy, fit_ok) ==
    IF Len(waypoints) <= MAPY_MAX_WAYPOINTS
    THEN [kind |-> "return", value |-> waypoints]
    ELSE LET chosen == IF strategy = "auto"
                       THEN select_strategy(target_distance_km, Len(waypoints))
                       ELSE strategy
         IN  IF chosen = "clustering" THEN cluster_waypoints(waypoints, fit_ok)
             ELSE IF chosen = "corridor"
                 THEN [kind |-> "return", value |-> corridor_waypoints(waypoints)]
             ELSE [kind |-> "return", value |-> sample_waypoints(waypoints)]

\* total_distance of MapyRouteService.generate_route: the length of the
\* path through the waypoints
total_distance(waypoints) ==
    IF Len(waypoints) = 0 THEN 0
    ELSE cumulative_distances(waypoints)[Len(waypoints)]

\* _is_valid_coordinate (Mapy.cz) and _is_likely_routable (OpenRouteService)
is_valid_coordinate(point) ==
    /\ Abs(point[2]) <= 85 * KmPerDegree
    /\ Abs(point[1]) <= 180 * KmPerDegree

\* MapyRouteService.validate_and_snap_waypoints.  _adjust_coordinate moves
\* a point by 0.0008 and 0.0006 degrees, less than a tenth of a grid unit:
\* an invalid grid point stays invalid and is dropped
mapy_validate_and_snap_waypoints(waypoints) ==
    SelectSeq(waypoints, is_valid_coordinate)

\* RouteService._simple_coordinate_snap: the point 0.0008 degrees to the
\* east, kept as the grid point with a third component 0
simple_coordinate_snap(point) == <<point[1], point[2], 0>>

\* RouteService.validate_and_snap_waypoints: the first 15 points, the
\* suspicious ones snapped, none dropped
ors_validate_and_snap_waypoints(waypoints) ==
    [k \in 1..Min(Len(waypoints), 15) |->
        IF is_valid_coordinate(waypoints[k]) THEN waypoints[k]
        ELSE simple_coordinate_snap(waypoints[k])]

\* a fallback that keeps every waypoint
create_fallback_waypoints_unchanged(waypoints) == waypoints

\* _create_fallback_waypoints with the marks at 1/4 and 3/4 of a long list
create_fallback_waypoints_quarters(waypoints) ==
    LET n == Len(waypoints)
    IN  IF n <= 3 THEN waypoints
        ELSE IF n <= 6
            THEN <<waypoints[1], waypoints[(n \div 2) + 1], waypoints[n]>>
        ELSE <<waypoints[1], waypoints[(n \div 4) + 1],
               waypoints[((3 * n) \div 4) + 1], waypoints[n]>>

\* MapyRouteService._create_fallback_waypoints
create_fallback_waypoints(waypoints) ==
    LET n == Len(waypoints)
    IN  IF n <= 3 THEN waypoints
        ELSE IF n <= 6
            THEN <<waypoints[1], waypoints[(n \div 2) + 1], waypoints[n]>>
        ELSE <<waypoints[1], waypoints[(n \div 3) + 1],
               waypoints[((2 * n) \div 3) + 1], waypoints[n]>>

\* what the Mapy.cz backend may answer: a route, a body without geometry,
\* an HTTP error status, or no answer
MapyResponses ==
    {"ok", "no_geometry", "http_400", "http_401", "http_429", "http_other",
     "network_error"}

\* what the OpenRouteService client may do: return a route, return no
\* features, raise an ApiError or raise another exception
OrsResponses ==
    {"ok", "no_features", "api_rate_limit", "api_2012_weightings", "api_2010",
     "api_other", "exception_rate_limit", "exception_weightings",
     "exception_other"}

\* the errors that are not a ValueError: the TypeError of the reducer and
\* the exceptions RouteService re-raises
NonValueErrors == {"reducer_type_error", "exception_weightings", "exception_other"}

\* "rate limit" in error_msg.lower() or "429" in error_msg
mentions_rate_limit(error) == error = "rate_limit"

\* "2012" in error_msg and "weightings" in error_msg: the ValueError that
\* RouteService raises for this backend error has neither word
mentions_weightings(error) == error = "exception_weightings"

\* MapyRouteService.generate_route up to its request: the checks, the
\* reduction of more than 15 waypoints and the validation.  The result is
\* the list to request a route for, or the error raised before any request
mapy_before_request(waypoints, bike_valid, validate_waypoints, fit_ok) ==
    IF ~bike_valid THEN [kind |-> "raise", error |-> "invalid_bike", value |-> <<>>]
    ELSE IF Len(waypoints) < 2
        THEN [kind |-> "raise", error |-> "too_few", value |-> <<>>]
    ELSE LET reduced == IF Len(waypoints) > 15
                        THEN reduce_waypoints(waypoints, total_distance(waypoints),
                                              "auto", fit_ok)
                        ELSE [kind |-> "return", value |-> waypoints]
         IN  IF reduced.kind = "raise"
             THEN [kind |-> "raise", error |-> "reducer_type_error", value |-> <<>>]
             ELSE LET validated == IF validate_waypoints
                                   THEN mapy_validate_and_snap_waypoints(reduced.value)
                                   ELSE reduced.value
                  IN  IF validate_waypoints /\ Len(validated) < 2
                      THEN [kind |-> "raise", error |-> "too_few_after_validation",
                            value |-> <<>>]
                      ELSE [kind |-> "send", error |-> "none", value |-> validated]

\* a limit of 51 waypoints
ORS_WAYPOINT_LIMIT_more == 50 + 1

\* if len(waypoints) > 50: waypoints = waypoints[:50]
ORS_WAYPOINT_LIMIT == 50

\* RouteService.generate_route up to its request: the checks, the cut to
\* the first 50 waypoints and the validation
ors_before_request(waypoints, bike_valid, validate_waypoints) ==
    IF ~bike_valid THEN [kind |-> "raise", error |-> "invalid_bike", value |-> <<>>]
    ELSE IF Len(waypoints) < 2
        THEN [kind |-> "raise", error |-> "too_few", value |-> <<>>]
    ELSE LET cut == IF Len(waypoints) > ORS_WAYPOINT_LIMIT
                    THEN SubSeq(waypoints, 1, ORS_WAYPOINT_LIMIT)
                    ELSE waypoints
             validated == IF validate_waypoints
                          THEN ors_validate_and_snap_waypoints(cut)
                          ELSE cut
         IN  IF validate_waypoints /\ Len(validated) < 2
             THEN [kind |-> "raise", error |-> "too_few_after_validation",
                   value |-> <<>>]
             ELSE [kind |-> "send", error |-> "none", value |-> validated]

\* the ValueError MapyRouteService.generate_route raises for a response
\* that is not a route
mapy_error(response) ==
    CASE response = "no_geometry"   -> "no_geometry"
      [] response = "http_429"      -> "rate_limit"
      [] response = "http_401"      -> "api_key"
      [] response = "http_400"      -> "invalid_params"
      [] response = "http_other"    -> "http_error"
      [] response = "network_error" -> "connect_error"

\* how RouteService.generate_route ends for a response: "ok", "none" for a
\* return without a value, or the error it raises
ors_result(response) ==
    CASE response = "ok"                   -> "ok"
      [] response = "no_features"          -> "none"
      [] response = "api_rate_limit"       -> "rate_limit"
      [] response = "api_2012_weightings"  -> "weightings"
      [] response = "api_2010"             -> "unroutable"
      [] response = "api_other"            -> "api_error"
      [] response = "exception_rate_limit" -> "rate_limit"
      [] response = "exception_weightings" -> "exception_weightings"
      [] response = "exception_other"      -> "exception_other"

\* the list of the next top-level call: the planned waypoints, and for the
\* retry of the request handler simplified_waypoints, [first, last]
next_call_waypoints ==
    IF q_calls = <<>> THEN q_waypoints
    ELSE <<q_waypoints[1], q_waypoints[Len(q_waypoints)]>>

\* routing_service.generate_route(...) is called, by the request handler
\* with validate_waypoints=False, and runs up to its request to the backend
CallService ==
    /\ q_pc = "call"
    /\ \E fit_ok \in BOOLEAN :
         LET waypoints == next_call_waypoints
             before == IF q_service = "mapy"
                       THEN mapy_before_request(waypoints, q_bike_valid,
                                                q_validate, fit_ok)
                       ELSE ors_before_request(waypoints, q_bike_valid, q_validate)
         IN  /\ q_calls' = Append(q_calls, waypoints)
             /\ IF before.kind = "send"
                THEN /\ q_stack' = <<before.value>>
                     /\ q_sent' = Append(q_sent, before.value)
                     /\ q_pc' = "awaiting"
                     /\ UNCHANGED q_errors
                ELSE /\ q_errors' = Append(q_errors, before.error)
                     /\ q_pc' = "ended"
                     /\ UNCHANGED <<q_stack, q_sent>>
    /\ UNCHANGED <<q_layer, q_service, q_bike_valid, q_validate, q_waypoints,
                   q_outcome>>
    /\ UNCHANGED nonRouteVars

\* MapyRouteService.generate_route from the response on: the result, the
\* except branches, and on a 400 for more than 3 waypoints the recursive
\* call with the fallback waypoints, whose own failure is swallowed and
\* replaced by the "invalid request parameters" error
MapyRespond ==
    /\ q_pc = "awaiting"
    /\ q_service = "mapy"
    /\ \E response \in MapyResponses :
         LET waypoints == q_stack[Len(q_stack)]
         IN  IF response = "ok"
             THEN /\ q_errors' = Append(q_errors, "ok")
                  /\ q_stack' = <<>>
                  /\ q_pc' = "ended"
                  /\ UNCHANGED q_sent
             ELSE IF response = "http_400" /\ Len(waypoints) > 3
             THEN LET fallback_waypoints == create_fallback_waypoints(waypoints)
                      before == mapy_before_request(fallback_waypoints,
                                                    q_bike_valid, FALSE, TRUE)
                  IN  IF before.kind = "send"
                      THEN /\ q_stack' = Append(q_stack, before.value)
                           /\ q_sent' = Append(q_sent, before.value)
                           /\ UNCHANGED <<q_errors, q_pc>>
                      ELSE /\ q_errors' = Append(q_errors, "invalid_params")
                           /\ q_stack' = <<>>
                           /\ q_pc' = "ended"
                           /\ UNCHANGED q_sent
             ELSE /\ q_errors' = Append(q_errors,
                                        IF Len(q_stack) > 1 THEN "invalid_params"
                                        ELSE mapy_error(response))
                  /\ q_stack' = <<>>
                  /\ q_pc' = "ended"
                  /\ UNCHANGED q_sent
    /\ UNCHANGED <<q_layer, q_service, q_bike_valid, q_validate, q_waypoints,
                   q_calls, q_outcome>>
    /\ UNCHANGED nonRouteVars

\* RouteService.generate_route from the response on
OrsRespond ==
    /\ q_pc = "awaiting"
    /\ q_service = "openroute"
    /\ \E response \in OrsResponses :
         q_errors' = Append(q_errors, ors_result(response))
    /\ q_stack' = <<>>
    /\ q_pc' = "ended"
    /\ UNCHANGED <<q_layer, q_service, q_bike_valid, q_validate, q_waypoints,
                   q_calls, q_sent, q_outcome>>
    /\ UNCHANGED nonRouteVars

\* what the message of a service error advises
service_advice(error) ==
    CASE error = "too_few_after_validation" -> "different_area_or_distance"
      [] error = "invalid_params" -> "different_coordinates_or_fewer_waypoints"
      [] error = "unroutable"     -> "different_start_point_or_area"
      [] error = "rate_limit"     -> "wait"
      [] error = "api_key"        -> "check_api_key"
      [] error = "connect_error"  -> "try_again_later"
      [] OTHER                    -> "none"

\* a caller of the service other than the request handler gets the result
\* or the error of its call
ServiceCallEnds ==
    /\ q_pc = "ended"
    /\ q_layer = "service"
    /\ LET last == q_errors[Len(q_errors)]
       IN  q_outcome' = [result |-> IF last \in {"ok", "none"} THEN last ELSE "raise",
                         error |-> last,
                         raised_status |-> 0,
                         http_status |-> 0,
                         advice |-> service_advice(last)]
    /\ q_pc' = "done"
    /\ UNCHANGED <<q_layer, q_service, q_bike_valid, q_validate, q_waypoints,
                   q_stack, q_calls, q_sent, q_errors>>
    /\ UNCHANGED nonRouteVars

\* the failed request: the HTTPException raised in the handler is caught by
\* its outer except Exception and raised again with status 500
request_failure(error, raised_status, advice) ==
    [result |-> "error", error |-> error, raised_status |-> raised_status,
     http_status |-> 500, advice |-> advice]

\* the retry for a list of two waypoints as well
retry_condition_two_or_more(waypoints) == Len(waypoints) >= 2

\* the retry for every list
retry_condition_any(waypoints) == Len(waypoints) >= 1

\* if len(waypoints) > 2: retry with start and end only
retry_condition(waypoints) == Len(waypoints) > 2

\* the /api/route handler after its first call of generate_route: the
\* response, the failure without a retry, or the retry with
\* simplified_waypoints
RequestAfterFirstCall ==
    /\ q_pc = "ended"
    /\ q_layer = "request"
    /\ Len(q_calls) = 1
    /\ LET last == q_errors[1]
       IN  IF last = "ok"
           THEN /\ q_outcome' = [result |-> "ok", error |-> "none",
                                 raised_status |-> 200, http_status |-> 200,
                                 advice |-> "none"]
                /\ q_pc' = "done"
           ELSE IF last = "none" \/ last \in NonValueErrors
           THEN /\ q_outcome' = request_failure(last, 500, "none")
                /\ q_pc' = "done"
           ELSE IF mentions_rate_limit(last)
           THEN /\ q_outcome' = request_failure(last, 429, "wait")
                /\ q_pc' = "done"
           ELSE IF retry_condition(q_waypoints)
           THEN /\ q_pc' = "call"
                /\ UNCHANGED q_outcome
           ELSE IF mentions_weightings(last)
           THEN /\ q_outcome' = request_failure(last, 400, "try_again_later")
                /\ q_pc' = "done"
           ELSE /\ q_outcome' = request_failure(last, 400, "different_start_point")
                /\ q_pc' = "done"
    /\ UNCHANGED <<q_layer, q_service, q_bike_valid, q_validate, q_waypoints,
                   q_stack, q_calls, q_sent, q_errors>>
    /\ UNCHANGED nonRouteVars

\* the /api/route handler after its retry: the response, or the failure
RequestAfterRetry ==
    /\ q_pc = "ended"
    /\ q_layer = "request"
    /\ Len(q_calls) = 2
    /\ LET last == q_errors[2]
       IN  q_outcome' =
             IF last = "ok"
             THEN [result |-> "ok", error |-> "none", raised_status |-> 200,
                   http_status |-> 200, advice |-> "none"]
             ELSE IF last = "none" THEN request_failure(last, 500, "none")
             ELSE IF mentions_rate_limit(last) THEN request_failure(last, 429, "wait")
             ELSE IF mentions_weightings(last)
                 THEN request_failure(last, 400, "try_again_later")
             ELSE request_failure(last, 400, "different_start_point_or_distance")
    /\ q_pc' = "done"
    /\ UNCHANGED <<q_layer, q_service, q_bike_valid, q_validate, q_waypoints,
                   q_stack, q_calls, q_sent, q_errors>>
    /\ UNCHANGED nonRouteVars

\* a route is requested: through the /api/route handler for the waypoints
\* the optimizer planned, or from a service directly
InitRouting ==
    /\ q_layer \in {"request", "service"}
    /\ q_service \in {"mapy", "openroute"}
    /\ q_bike_valid \in BOOLEAN
    /\ q_validate \in (IF q_layer = "request" THEN {FALSE} ELSE BOOLEAN)
    /\ q_waypoints \in (IF q_layer = "request" THEN PlannedWaypointLists
                        ELSE ServiceWaypointLists)
    /\ q_pc = "call"
    /\ q_stack = <<>>
    /\ q_calls = <<>>
    /\ q_sent = <<>>
    /\ q_errors = <<>>
    /\ q_outcome = [result |-> "none"]
    /\ OptimizerUnused
    /\ ReducerUnused
    /\ OthersUnused

NextRouting ==
    \/ CallService
    \/ MapyRespond
    \/ OrsRespond
    \/ ServiceCallEnds
    \/ RequestAfterFirstCall
    \/ RequestAfterRetry

SpecRouting == InitRouting /\ [][NextRouting]_vars

(***************************************************************************)
(* Claims about route generation.                                          *)
(***************************************************************************)
\* C7: one top-level call of MapyRouteService.generate_route sends at most
\* two requests to the backend, the original one and a single retry with
\* the fallback waypoints, however the backend answers.
C7_AtMostTwoRequests ==
    (q_layer = "service" /\ q_service = "mapy") => Len(q_sent) <= 2

\* C8 as stated: whenever the backend rejected the waypoint list of a
\* request, for unroutable or invalid waypoints or for throttling, and the
\* request failed, the request handler had made exactly one retry.
C8_RetryOnEveryRejection ==
    (/\ q_layer = "request"
     /\ q_pc = "done"
     /\ q_outcome.result = "error"
     /\ q_sent # <<>>
     /\ q_errors[1] \in {"rate_limit", "unroutable", "invalid_params"})
        => Len(q_calls) = 2

\* C8: the request handler calls the service at most twice.  It makes its
\* one retry exactly when the first call raised a ValueError that is not a
\* rate-limit error and the planned list has more than 2 waypoints; the
\* retry is for the first and the last waypoint only.  A rate-limit error
\* of the first call is surfaced without a retry.
C8_OneRetryUnlessThrottled ==
    q_layer = "request" =>
        /\ Len(q_calls) <= 2
        /\ Len(q_calls) = 2 =>
              /\ q_calls[2] = <<q_waypoints[1], q_waypoints[Len(q_waypoints)]>>
              /\ Len(q_waypoints) > 2
              /\ q_errors[1] \notin ({"ok", "none", "rate_limit"} \cup NonValueErrors)
        /\ q_pc = "done" =>
              \/ Len(q_calls) = 2
              \/ Len(q_waypoints) <= 2
              \/ q_errors[1] \in ({"ok", "none", "rate_limit"} \cup NonValueErrors)

\* a request whose first list the backend rejected as unroutable failed
\* after one retry with start and end
C8_Witness ==
    /\ q_layer = "request"
    /\ q_pc = "done"
    /\ q_outcome.result = "error"
    /\ Len(q_sent) = 2
    /\ q_errors[1] = "unroutable"
    /\ Len(q_calls) = 2
    /\ Len(q_calls[1]) > 2
    /\ Len(q_calls[2]) = 2

\* a throttled request failed without a retry
C8_WitnessThrottled ==
    /\ q_layer = "request"
    /\ q_pc = "done"
    /\ q_outcome.result = "error"
    /\ q_outcome.raised_status = 429
    /\ Len(q_waypoints) > 2
    /\ Len(q_sent) = 1
    /\ Len(q_calls) = 1

\* fewer than 2 waypoints are available for routing: the list has fewer
\* than 2, or fewer than 2 are left after the validation that was asked for
FewerThanTwoAvailable ==
    /\ q_pc # "unused"
    /\ q_bike_valid
    /\ \/ Len(q_waypoints) < 2
       \/ /\ q_validate
          /\ Len(q_waypoints) <= 15
          /\ Len(IF q_service = "mapy"
                 THEN SelectSeq(q_waypoints, is_valid_coordinate)
                 ELSE q_waypoints) < 2

\* the advice to change the area or the distance: the message of the
\* validation, and the handler's advice to select a different start point
AreaOrDistanceAdvice == {"different_area_or_distance", "different_start_point"}

C9_WitnessAfterValidation ==
    /\ q_layer = "service"
    /\ q_bike_valid
    /\ q_validate
    /\ Len(q_waypoints) = 3
    /\ q_pc = "done"
    /\ q_outcome.result = "raise"
    /\ q_outcome.error = "too_few_after_validation"
    /\ q_sent = <<>>

(***************************************************************************)
(* mapy_waypoint_reducer.py: MapyWaypointReducer.estimate_route_quality.   *)
(*                                                                         *)
(* A ratio is kept as the pair <<numerator, denominator>> of the division  *)
(* that gives it; the constants 1.0 and 0 are <<1, 1>> and <<0, 1>>.       *)
(***************************************************************************)
\* longest list handed to estimate_route_quality
MaxQualityLen == 3

\* the waypoints of the lists handed to estimate_route_quality
QualityPoints == {<<0, 0>>, <<3, 4>>, <<0, 10>>}

\* original_distance, reduced_distance: the sum of the distances between
\* consecutive waypoints
path_distance(waypoints) ==
    IF Len(waypoints) = 0 THEN 0
    ELSE cumulative_distances(waypoints)[Len(waypoints)]

\* the value of a ratio is 1.0
is_one(ratio) == ratio[1] = ratio[2]

\* 'distance_ratio': reduced_distance / original_distance
\*                   if original_distance > 0 else 1.0
distance_ratio(original_distance, reduced_distance) ==
    IF original_distance > 0 THEN <<reduced_distance, original_distance>>
    ELSE <<1, 1>>

\* density_ratio with 0 where the original density is 0
density_ratio_zero_default(original_count, original_distance, reduced_count, reduced_distance) ==
    IF original_distance > 0 /\ original_count > 0 /\ reduced_distance > 0
    THEN <<reduced_count * original_distance, reduced_distance * original_count>>
    ELSE <<0, 1>>

\* 'density_ratio': reduced_density / original_density
\*                  if original_density > 0 else 1.0, where a density is
\* len(waypoints) / distance if distance > 0 else 0
density_ratio(original_count, original_distance, reduced_count, reduced_distance) ==
    IF original_distance > 0 /\ original_count > 0
    THEN IF reduced_distance > 0
         THEN <<reduced_count * original_distance,
                reduced_distance * original_count>>
         ELSE <<0, 1>>
    ELSE <<1, 1>>

\* MapyWaypointReducer.estimate_route_quality: the dictionary, or the
\* ZeroDivisionError of len(reduced_waypoints) / len(original_waypoints)
estimate_route_quality(original_waypoints, reduced_waypoints) ==
    LET original_distance == path_distance(original_waypoints)
        reduced_distance == path_distance(reduced_waypoints)
    IN  IF Len(original_waypoints) = 0
        THEN [kind |-> "raise",
              waypoint_reduction |-> <<0, 1>>,
              distance_ratio |-> <<0, 1>>,
              density_ratio |-> <<0, 1>>,
              original_distance |-> original_distance,
              reduced_distance |-> reduced_distance]
        ELSE [kind |-> "return",
              waypoint_reduction |-> <<Len(reduced_waypoints), Len(original_waypoints)>>,
              distance_ratio |-> distance_ratio(original_distance, reduced_distance),
              density_ratio |-> density_ratio(Len(original_waypoints), original_distance,
                                              Len(reduced_waypoints), reduced_distance),
              original_distance |-> original_distance,
              reduced_distance |-> reduced_distance]

\* the call of estimate_route_quality
EstimateRouteQuality ==
    /\ e_pc = "call"
    /\ e_quality' = estimate_route_quality(e_original, e_reduced)
    /\ e_pc' = "done"
    /\ UNCHANGED <<e_original, e_reduced>>
    /\ UNCHANGED nonQualityVars

InitQuality ==
    /\ e_original \in SeqsUpTo(QualityPoints, MaxQualityLen)
    /\ e_reduced \in SeqsUpTo(QualityPoints, MaxQualityLen)
    /\ e_pc = "call"
    /\ e_quality = [kind |-> "none"]
    /\ OptimizerUnused
    /\ ReducerUnused
    /\ RoutingUnused
    /\ CenterUnused
    /\ ServerUnused
    /\ FallbackUnused

NextQuality == EstimateRouteQuality

SpecQuality == InitQuality /\ [][NextQuality]_vars

\* C13: estimate_route_quality does not raise on a path of length zero,
\* and the ratios that depend on a path length that is zero are 1.0:
\* distance_ratio and density_ratio for the original path, density_ratio
\* for the reduced path.
C13_ZeroLengthGivesOne ==
    (/\ e_pc = "done"
     /\ \/ e_quality.original_distance = 0
        \/ e_quality.reduced_distance = 0)
        => /\ e_quality.kind = "return"
           /\ e_quality.original_distance = 0 =>
                 /\ is_one(e_quality.distance_ratio)
                 /\ is_one(e_quality.density_ratio)
           /\ e_quality.reduced_distance = 0 =>
                 is_one(e_quality.density_ratio)

\* what holds of C13: for a non-empty original list whose path has length
\* zero, distance_ratio and density_ratio are 1.0
C13_ZeroOriginalGivesOne ==
    (/\ e_pc = "done"
     /\ Len(e_original) > 0
     /\ e_quality.original_distance = 0)
        => /\ e_quality.kind = "return"
           /\ is_one(e_quality.distance_ratio)
           /\ is_one(e_quality.density_ratio)

\* C14: for every non-empty list W, estimate_route_quality(W, W) gives
\* waypoint_reduction, distance_ratio and density_ratio 1.0.
C14_IdentityQuality ==
    (e_pc = "done" /\ e_original = e_reduced /\ Len(e_original) > 0) =>
        /\ e_quality.kind = "return"
        /\ is_one(e_quality.waypoint_reduction)
        /\ is_one(e_quality.distance_ratio)
        /\ is_one(e_quality.density_ratio)

\* the quality of a path of positive length against itself
C14_Witness ==
    /\ e_pc = "done"
    /\ e_original = e_reduced
    /\ Len(e_original) = 3
    /\ e_quality.original_distance > 0
    /\ e_quality.kind = "return"
    /\ is_one(e_quality.density_ratio)

\* the quality of a single point against itself
C14_WitnessSinglePoint ==
    /\ e_pc = "done"
    /\ e_original = e_reduced
    /\ Len(e_original) = 1
    /\ e_quality.kind = "return"
    /\ is_one(e_quality.distance_ratio)

(***************************************************************************)
(* Further claims about the waypoint reducer.                              *)
(***************************************************************************)
\* the strategy the auto selection must choose for a distance
expected_auto_strategy(distance) ==
    IF distance < 30 THEN "clustering"
    ELSE IF distance >= 75 THEN "corridor"
    ELSE "sampling"

\* the result a strategy gives for the waypoints
strategy_results(strategy, waypoints) ==
    IF strategy = "clustering"
        THEN {cluster_waypoints(waypoints, fit_ok) : fit_ok \in BOOLEAN}
    ELSE IF strategy = "corridor"
        THEN {[kind |-> "return", value |-> corridor_waypoints(waypoints)]}
    ELSE {[kind |-> "return", value |-> sample_waypoints(waypoints)]}

\* C11: on an input longer than 15 with strategy auto, reduce_waypoints
\* uses clustering for a distance below 30, sampling from 30 to below 75
\* and corridor from 75 on; a named strategy (clustering, sampling or
\* corridor) is used whatever the distance.
C11_AutoStrategyByDistance ==
    (rpc = "done" /\ Len(r_waypoints) > 15) =>
        /\ r_strategy = "auto" =>
              /\ r_chosen = expected_auto_strategy(r_target_distance)
              /\ r_result \in strategy_results(expected_auto_strategy(r_target_distance),
                                               r_waypoints)
        /\ r_strategy \in {"clustering", "sampling", "corridor"} =>
              /\ r_chosen = r_strategy
              /\ r_result \in strategy_results(r_strategy, r_waypoints)

\* with strategy auto a distance of exactly 30 was reduced by sampling
C11_Witness ==
    /\ rpc = "done"
    /\ Len(r_waypoints) > 15
    /\ r_strategy = "auto"
    /\ r_target_distance = 30
    /\ r_chosen = "sampling"
    /\ r_result = [kind |-> "return", value |-> sample_waypoints(r_waypoints)]
    /\ Len(r_result.value) < Len(r_waypoints)

\* with strategy auto a distance of exactly 75 was reduced by corridor
C11_WitnessCorridor ==
    /\ rpc = "done"
    /\ Len(r_waypoints) > 15
    /\ r_strategy = "auto"
    /\ r_target_distance = 75
    /\ r_chosen = "corridor"

\* a named strategy was used against the distance
C11_WitnessNamed ==
    /\ rpc = "done"
    /\ Len(r_waypoints) > 15
    /\ r_strategy = "corridor"
    /\ r_target_distance = 29
    /\ r_chosen = "corridor"

\* C12: reduce_waypoints returns an input of at most 15 waypoints
\* unchanged, whatever the target distance and the strategy.
C12_NoReductionWithinLimit ==
    (rpc = "done" /\ Len(r_waypoints) <= 15) =>
        r_result = [kind |-> "return", value |-> r_waypoints]

\* an input of exactly 15 waypoints came back unchanged under a named
\* strategy
C12_Witness ==
    /\ rpc = "done"
    /\ Len(r_waypoints) = 15
    /\ r_strategy = "corridor"
    /\ r_result = [kind |-> "return", value |-> r_waypoints]

\* C1 as stated: for every input of at least 2 waypoints reduce_waypoints
\* returns a list, and the list has at least 2 and at most 15 points.
C1_ReturnsBoundedList ==
    (rpc = "done" /\ Len(r_waypoints) >= 2) =>
        /\ r_result.kind = "return"
        /\ Len(r_result.value) >= 2
        /\ Len(r_result.value) <= 15

\* C19: when the clustering step fails on an input longer than 15,
\* reduce_waypoints does not raise but returns what the sampling strategy
\* gives for the input; so a reduction by clustering ends with the cluster
\* centres between start and end, or with the sampling result.
C19_ClusteringFallsBackToSampling ==
    (rpc = "done" /\ r_chosen = "clustering" /\ Len(r_waypoints) > 15) =>
        r_result \in {cluster_waypoints(r_waypoints, TRUE),
                      [kind |-> "return", value |-> sample_waypoints(r_waypoints)]}

\* the gap filling inserted the midpoint of one of the largest gaps
inserts_largest_gap_midpoint(before, after) ==
    \E i \in 1..(Len(before) - 1) :
        /\ \A k \in 1..(Len(before) - 1) :
              before[i + 1] - before[i] >= before[k + 1] - before[k]
        /\ (before[i] + before[i + 1]) \div 2 \notin Range(before)
        /\ after = SortedSeq(Range(before) \cup {(before[i] + before[i + 1]) \div 2})

\* a call of reduce_waypoints whose gap-filling loop is not held up
SpecReducerFair ==
    SpecReducer /\ WF_vars(CorridorFillStep) /\ WF_vars(CorridorReturn)

\* C20: every iteration of the gap-filling loop of the corridor strategy
\* inserts the point at the midpoint index of the currently largest gap;
\* the loop ends on every input; and for an input longer than 15 the
\* corridor strategy returns exactly 15 points.
C20_GapFillingReachesCap ==
    /\ [][(rpc = "corridor_fill" /\ rpc' = "corridor_fill")
             => inserts_largest_gap_midpoint(important_indices, important_indices')]_vars
    /\ [](rpc = "corridor_fill" =>
             /\ Len(important_indices) <= 15
             /\ important_indices[1] = 1
             /\ important_indices[Len(important_indices)] = Len(r_waypoints))
    /\ []((rpc = "done" /\ r_chosen = "corridor" /\ Len(r_waypoints) > 15)
             => (r_result.kind = "return" /\ Len(r_result.value) = 15))
    /\ (rpc = "corridor_fill") ~> (rpc = "done")

\* the corridor strategy found fewer than 15 turns and returned 15 points
C20_Witness ==
    /\ rpc = "done"
    /\ r_chosen = "corridor"
    /\ Len(r_waypoints) > 15
    /\ Len(turn_indices(r_waypoints)) < 15
    /\ r_result.kind = "return"
    /\ Len(r_result.value) = 15

(***************************************************************************)
(* Further claims about the optimizer.                                     *)
(***************************************************************************)
\* mercantile.tile(lon, lat, 14): the tile a coordinate lies in
tile_of(point) == <<point[1] \div TileSize, (-point[2]) \div TileSize>>

\* the tiles of the waypoints of a list
tiles_of(points) == {tile_of(points[i]) : i \in 1..Len(points)}

\* the orders in which a set of waypoints can be visited
VisitingOrders(S) == {s \in [1..Cardinality(S) -> S] : Range(s) = S}

\* length of the loop start -> waypoints in order -> start
loop_length(start, waypoints) == PathLength(<<start>> \o waypoints \o <<start>>)

\* the waypoints of the candidate tiles of the call
candidate_coords == {c.coord : c \in tile_coords}

\* some loop through all the candidate waypoints is within the budget
SomeOrderFits ==
    \E s \in VisitingOrders(candidate_coords) :
        loop_length(start_point, s) <= target_distance

\* the loop through all the candidate waypoints is within the budget in
\* whatever order they are visited
EveryOrderFits ==
    \A s \in VisitingOrders(candidate_coords) :
        loop_length(start_point, s) <= target_distance

\* the waypoints selected so far are centres, with their offsets, of
\* pairwise distinct tiles of all_tiles minus visited_tiles
selects_distinct_unvisited_tiles ==
    /\ Cardinality(used_indices) = Len(selected)
    /\ tiles_of(selected) = used_indices
    /\ used_indices \subseteq all_tiles \ visited_tiles
    /\ \A i \in 1..Len(selected) :
          \E off \in OffsetRange \X OffsetRange :
              selected[i] = tile_to_center_with_offset(tile_of(selected[i]), TRUE, off)

\* a finished call for three unvisited tiles with max_tiles = 3
three_unvisited_call ==
    /\ opc = "done"
    /\ prefer_unvisited
    /\ Cardinality(unvisited_tiles) = 3
    /\ max_tiles = 3

\* all three unvisited tiles were selected and the loop has 5 elements
selected_all_three ==
    /\ tiles_of(selected) = unvisited_tiles
    /\ Len(opt_result) = 5
    /\ opt_result[1] = start_point
    /\ opt_result[5] = start_point
    /\ tiles_of(SubSeq(opt_result, 2, 4)) = unvisited_tiles

\* C17, as stated: with prefer_unvisited the selected waypoints are centres
\* of distinct unvisited tiles, and three unvisited tiles that fit the
\* budget (a loop through all three is within it) are all selected with
\* max_tiles = 3, giving a loop of 5 elements.
C17_SelectsAllThatFit ==
    /\ (prefer_unvisited /\ opc # "unused") => selects_distinct_unvisited_tiles
    /\ (three_unvisited_call /\ SomeOrderFits) => selected_all_three

\* C17: with prefer_unvisited the selected waypoints are centres of distinct
\* tiles of all_tiles minus visited_tiles; three unvisited tiles whose loop
\* is within the budget in every visiting order are all selected with
\* max_tiles = 3, and the returned loop has 5 elements.
C17_SelectsDistinctUnvisited ==
    /\ (prefer_unvisited /\ opc # "unused") => selects_distinct_unvisited_tiles
    /\ (three_unvisited_call /\ EveryOrderFits) => selected_all_three

\* three unvisited tiles beside a visited one, all selected
C17_Witness ==
    /\ three_unvisited_call
    /\ EveryOrderFits
    /\ visited_tiles \cap all_tiles # {}
    /\ selected_all_three

\* a loop through the three unvisited tiles fits, yet only two are selected
C17_WitnessTwoOfThree ==
    /\ three_unvisited_call
    /\ SomeOrderFits
    /\ Len(selected) = 2
    /\ Len(opt_result) = 4

(***************************************************************************)
(* optimizer.py: tile_to_center_with_offset called on any tile.            *)
(***************************************************************************)
\* largest tile_x and tile_y of the call
TileCoordBound == 3

\* the tiles the function is called on
CenterTiles == (0..TileCoordBound) \X (0..TileCoordBound)

\* one call; the two values of random.random() are drawn when road_bias is set
TileToCenterWithOffset ==
    /\ c_pc = "call"
    /\ \E offset \in OffsetRange \X OffsetRange :
          c_result' = tile_to_center_with_offset(c_tile, c_road_bias, offset)
    /\ c_pc' = "done"
    /\ UNCHANGED <<c_tile, c_road_bias>>
    /\ UNCHANGED nonCenterVars

InitCenter ==
    /\ c_tile \in CenterTiles
    /\ c_road_bias \in BOOLEAN
    /\ c_pc = "call"
    /\ c_result = <<0, 0>>
    /\ OptimizerUnused
    /\ ReducerUnused
    /\ RoutingUnused
    /\ QualityUnused
    /\ ServerUnused
    /\ FallbackUnused

NextCenter == TileToCenterWithOffset

SpecCenter == InitCenter /\ [][NextCenter]_vars

\* C18: with road_bias the point returned differs from the tile centre by
\* at most a quarter of the tile's width in longitude and a quarter of its
\* height in latitude, and lies in the same tile; without road_bias it is
\* the point tile_to_center returns.
C18_OffsetWithinQuarterTile ==
    c_pc = "done" =>
        LET center == tile_to_center(c_tile)
        IN  IF c_road_bias
            THEN /\ 4 * Abs(c_result[1] - center[1]) <= TileSize
                 /\ 4 * Abs(c_result[2] - center[2]) <= TileSize
                 /\ tile_of(c_result) = c_tile
            ELSE c_result = center

\* a call with road_bias that moved the point on both axes
C18_Witness ==
    /\ c_pc = "done"
    /\ c_road_bias
    /\ c_result[1] # tile_to_center(c_tile)[1]
    /\ c_result[2] # tile_to_center(c_tile)[2]
    /\ 4 * Abs(c_result[1] - tile_to_center(c_tile)[1]) = TileSize

\* a call without road_bias
C18_WitnessDisabled ==
    /\ c_pc = "done"
    /\ ~c_road_bias
    /\ c_result = tile_to_center(c_tile)

(***************************************************************************)
(* main.py, routing_factory.py: the server process answering planning and  *)
(* download requests.  generate_route and download_gpx are coroutines      *)
(* without an await, so each request is answered in one step; the requests *)
(* of different clients arrive in any order.                               *)
(***************************************************************************)
\* planning requests answered by the process
MaxRequests == 2

\* number of file names route_<n>.gpx, standing for 1000000
HashBuckets == 2

\* the GPX documents create_gpx can produce for the requests
GpxContents == {"gpx_a", "gpx_b", "gpx_c"}

\* no file of that name
NoFile == "no_file"

\* the names a download can ask for: route_<n>.gpx for n < HashBuckets and
\* one name (HashBuckets) that route generation never writes
Filenames == 0..HashBuckets

\* the services a request can name, both configured
ServiceTypes == {"openroute", "mapy"}

\* RoutingServiceFactory._initialize_services: one RouteService and one
\* MapyRouteService, which constructs its own MapyWaypointReducer
initialize_services ==
    [openroute |-> [instance |-> 1, waypoint_reducer |-> 0],
     mapy |-> [instance |-> 2, waypoint_reducer |-> 3]]

\* RoutingServiceFactory.create_service: the instance the factory holds
create_service(service_type) == s_factory[service_type]

\* gpx_filename = f"route_{hash(gpx_content) % 1000000}.gpx"
gpx_filename(gpx_content) == s_hash[gpx_content]

\* a planning request that ends with a RouteResponse
GenerateRoute ==
    /\ Len(s_requests) < MaxRequests
    /\ \E service_type \in ServiceTypes, gpx_content \in GpxContents :
          LET routing_service == create_service(service_type)
          IN  /\ s_temp' = [s_temp EXCEPT ![gpx_filename(gpx_content)] = gpx_content]
              /\ s_requests' = Append(s_requests,
                     [http_status |-> 200,
                      optimizer |-> s_next_instance,
                      routing_service |-> routing_service.instance,
                      waypoint_reducer |-> routing_service.waypoint_reducer,
                      gpx_content |-> gpx_content,
                      gpx_download_url |-> gpx_filename(gpx_content)])
    /\ s_next_instance' = s_next_instance + 1
    /\ UNCHANGED <<s_hash, s_factory, s_download>>
    /\ UNCHANGED nonServerVars

\* a planning request whose routing fails: nothing is stored
GenerateRouteFails ==
    /\ Len(s_requests) < MaxRequests
    /\ \E service_type \in ServiceTypes :
          LET routing_service == create_service(service_type)
          IN  s_requests' = Append(s_requests,
                     [http_status |-> 500,
                      optimizer |-> s_next_instance,
                      routing_service |-> routing_service.instance,
                      waypoint_reducer |-> routing_service.waypoint_reducer,
                      gpx_content |-> NoFile,
                      gpx_download_url |-> HashBuckets])
    /\ s_next_instance' = s_next_instance + 1
    /\ UNCHANGED <<s_hash, s_factory, s_temp, s_download>>
    /\ UNCHANGED nonServerVars

\* download_gpx: the Response for an existing file; otherwise the
\* HTTPException(404) raised in the try block is caught by its
\* "except Exception" and raised again with status 500
download_gpx(filename) ==
    IF s_temp[filename] # NoFile
    THEN [kind |-> "response", filename |-> filename, stored |-> s_temp[filename],
          raised_status |-> 200, http_status |-> 200, content |-> s_temp[filename]]
    ELSE [kind |-> "response", filename |-> filename, stored |-> NoFile,
          raised_status |-> 404, http_status |-> 500, content |-> NoFile]

\* GET /api/download/{filename}
DownloadGpx ==
    /\ \E filename \in Filenames : s_download' = download_gpx(filename)
    /\ UNCHANGED <<s_hash, s_factory, s_next_instance, s_temp, s_requests>>
    /\ UNCHANGED nonServerVars

InitServer ==
    /\ s_hash \in [GpxContents -> 0..(HashBuckets - 1)]
    /\ s_factory = initialize_services
    /\ s_next_instance = 4
    /\ s_temp = [f \in Filenames |-> NoFile]
    /\ s_requests = <<>>
    /\ s_download = [kind |-> "none"]
    /\ OptimizerUnused
    /\ ReducerUnused
    /\ RoutingUnused
    /\ QualityUnused
    /\ CenterUnused
    /\ FallbackUnused

NextServer ==
    \/ GenerateRoute
    \/ GenerateRouteFails
    \/ DownloadGpx

SpecServer == InitServer /\ [][NextServer]_vars

\* the answered planning requests
Answered == 1..Len(s_requests)

\* C15: any two planning requests use different instances of the optimizer,
\* the waypoint reducer and the routing service, and the GPX document
\* stored for an answered request stays that request's document whatever
\* other requests are answered.
C15_NoSharedState ==
    /\ \A i \in Answered : \A j \in Answered \ {i} :
          /\ s_requests[i].optimizer # s_requests[j].optimizer
          /\ s_requests[i].routing_service # s_requests[j].routing_service
          /\ s_requests[i].waypoint_reducer # 0 =>
                s_requests[i].waypoint_reducer # s_requests[j].waypoint_reducer
    /\ \A i \in Answered :
          s_requests[i].http_status = 200 =>
              s_temp[s_requests[i].gpx_download_url] = s_requests[i].gpx_content

\* every planning request gets an optimizer of its own
C15_OptimizerPerRequest ==
    \A i \in Answered : \A j \in Answered \ {i} :
        s_requests[i].optimizer # s_requests[j].optimizer

\* two requests with different documents were given the same download url
C15_WitnessOverwritten ==
    \E i \in Answered : \E j \in Answered :
        /\ i < j
        /\ s_requests[i].http_status = 200
        /\ s_requests[j].http_status = 200
        /\ s_requests[i].gpx_content # s_requests[j].gpx_content
        /\ s_requests[i].gpx_download_url = s_requests[j].gpx_download_url
        /\ s_download.kind = "response"
        /\ s_download.filename = s_requests[i].gpx_download_url
        /\ s_download.content = s_requests[j].gpx_content

\* C16: a download of a name with no stored file is answered with status
\* 404; a download of a stored file is answered with status 200 and the
\* file's content.
C16_DownloadStatus ==
    s_download.kind = "response" =>
        IF s_download.stored = NoFile
        THEN s_download.http_status = 404
        ELSE /\ s_download.http_status = 200
             /\ s_download.content = s_download.stored

\* what download_gpx does: a stored file is served with status 200, a
\* missing one is answered with status 500
C16_MissingFileGives500 ==
    s_download.kind = "response" =>
        IF s_download.stored = NoFile
        THEN s_download.http_status = 500 /\ s_download.raised_status = 404
        ELSE /\ s_download.http_status = 200
             /\ s_download.content = s_download.stored

\* a download of a missing file after a route was generated
C16_WitnessMissing ==
    /\ s_download.kind = "response"
    /\ s_download.stored = NoFile
    /\ \E i \in Answered : s_requests[i].http_status = 200

(***************************************************************************)
(* The corridor strategy when more turns qualify than fit.                 *)
(***************************************************************************)
\* middle_important: the significant turns of the input
middle_important_of(waypoints) ==
    LET important == turn_indices(waypoints)
    IN  SubSeq(important, 2, Len(important) - 1)

\* a corridor call that found more than 13 significant turns, after the
\* subsampling
corridor_subsampled ==
    /\ rpc \in {"corridor_fill", "done"}
    /\ r_chosen = "corridor"
    /\ Len(r_waypoints) > MAPY_MAX_WAYPOINTS
    /\ Len(middle_important_of(r_waypoints)) > MAPY_MAX_WAYPOINTS - 2

\* kept is taken from middle at the stride, and what lies behind the last
\* kept element is no longer than one stride
regular_stride_over_whole(kept, middle, stride) ==
    /\ \A k \in 1..Len(kept) :
          /\ (k - 1) * stride + 1 <= Len(middle)
          /\ kept[k] = middle[(k - 1) * stride + 1]
    /\ Len(middle) - ((Len(kept) - 1) * stride + 1) <= stride

\* C21: with more than 13 significant turns the corridor strategy keeps
\* exactly 13 of them, taken at a regular stride that spans the whole list
\* of turns, between the first and the last waypoint.
C21_EvenSubsample ==
    corridor_subsampled =>
        LET middle == middle_important_of(r_waypoints)
            kept == SubSeq(important_indices, 2, Len(important_indices) - 1)
        IN  /\ Len(kept) = MAPY_MAX_WAYPOINTS - 2
            /\ important_indices[1] = 1
            /\ important_indices[Len(important_indices)] = Len(r_waypoints)
            /\ \E stride \in 1..Len(middle) :
                  regular_stride_over_whole(kept, middle, stride)

\* what holds of C21: exactly 13 turns are kept between the first and the
\* last waypoint, the first 13 of those at the stride len // 13
C21_KeepsThirteenFromTheBeginning ==
    corridor_subsampled =>
        LET middle == middle_important_of(r_waypoints)
            kept == SubSeq(important_indices, 2, Len(important_indices) - 1)
            step == Max(1, Len(middle) \div (MAPY_MAX_WAYPOINTS - 2))
        IN  /\ Len(kept) = MAPY_MAX_WAYPOINTS - 2
            /\ important_indices[1] = 1
            /\ important_indices[Len(important_indices)] = Len(r_waypoints)
            /\ \A k \in 1..Len(kept) : kept[k] = middle[(k - 1) * step + 1]

\* 15 significant turns, of which the last two are dropped
C21_WitnessTailDropped ==
    /\ corridor_subsampled
    /\ rpc = "done"
    /\ Len(middle_important_of(r_waypoints)) = 15
    /\ Len(r_result.value) = 15
    /\ r_result.value[14] = r_waypoints[14]
    /\ r_result.value[15] = r_waypoints[17]

(***************************************************************************)
(* The sampling strategy: which points are chosen.                         *)
(***************************************************************************)
\* the along-path distance from the first waypoint to each waypoint
RECURSIVE distances_along(_, _)
distances_along(waypoints, n) ==
    IF n = 1 THEN <<0>>
    ELSE LET before == distances_along(waypoints, n - 1)
         IN  Append(before,
                    before[n - 1]
                      + reducer_haversine_distance(waypoints[n - 1], waypoints[n]))

\* how far the cumulative distance of position j is from i / 14 of the
\* total path length, in fourteenths
target_diff(cum, i, j) ==
    Abs((MAPY_MAX_WAYPOINTS - 1) * cum[j] - i * cum[Len(cum)])

\* position j is the first of the positions of candidates that are nearest
\* to the i-th target; cum holds the cumulative distances
first_nearest_among(cum, candidates, i, j) ==
    /\ j \in candidates
    /\ \A k \in candidates :
          /\ target_diff(cum, i, j) <= target_diff(cum, i, k)
          /\ k < j => target_diff(cum, i, k) > target_diff(cum, i, j)

\* the interior positions that are the first nearest of candidates to one
\* of the 13 targets
chosen_interior(waypoints, candidates) ==
    LET cum == distances_along(waypoints, Len(waypoints))
    IN  {j \in 2..(Len(waypoints) - 1) :
            \E i \in 1..(MAPY_MAX_WAYPOINTS - 2) :
                first_nearest_among(cum, candidates, i, j)}

\* the interior positions
interior_positions(waypoints) == 2..(Len(waypoints) - 1)

\* the list first waypoint, the waypoints at the positions, last waypoint
endpoints_around(waypoints, positions) ==
    LET idx == SortedSeq(positions)
    IN  <<waypoints[1]>> \o [k \in 1..Len(idx) |-> waypoints[idx[k]]]
            \o <<waypoints[Len(waypoints)]>>

\* a finished sampling call on more than 15 waypoints
sampling_call_done ==
    /\ rpc = "done"
    /\ r_chosen = "sampling"
    /\ Len(r_waypoints) > MAPY_MAX_WAYPOINTS
    /\ r_result.kind = "return"

\* C22, as stated: the interior of the sampling result is made of the
\* interior points nearest to i / 14 of the path length, i = 1..13, each
\* once, in path order.
C22_NearestInteriorPoints ==
    sampling_call_done =>
        r_result.value =
            endpoints_around(r_waypoints,
                chosen_interior(r_waypoints, interior_positions(r_waypoints)))

\* C22: for each i = 1..13 the point chosen is the first of the input
\* points, end points included, nearest to i / 14 of the path length; the
\* chosen points that are interior, each once and in path order, are the
\* interior of the sampling result.
C22_NearestPointsEndpointsDropped ==
    sampling_call_done =>
        r_result.value =
            endpoints_around(r_waypoints,
                chosen_interior(r_waypoints, 1..Len(r_waypoints)))

\* a sampling call in which an end point was nearest to a target and was
\* dropped, on a path of positive length
C22_Witness ==
    /\ sampling_call_done
    /\ cumulative_distances(r_waypoints)[Len(r_waypoints)] > 0
    /\ \E i \in 1..(MAPY_MAX_WAYPOINTS - 2) :
          first_nearest_among(distances_along(r_waypoints, Len(r_waypoints)),
                              1..Len(r_waypoints), i, 1)
    /\ Len(r_result.value) > 2
    /\ Len(r_result.value) < MAPY_MAX_WAYPOINTS

\* a sampling call that returned 15 different points
C22_WitnessFull ==
    /\ sampling_call_done
    /\ Len(r_result.value) = MAPY_MAX_WAYPOINTS
    /\ Cardinality(Range(r_result.value)) = MAPY_MAX_WAYPOINTS

(***************************************************************************)
(* _greedy_tile_selection: what is picked, and when the loop stops.        *)
(***************************************************************************)
\* the candidate can be visited from pos and the start reached afterwards
\* within the remaining budget
fits_budget(c, pos, start, remaining) ==
    haversine_distance(pos, c.coord) + haversine_distance(c.coord, start) <= remaining

\* weight / (dist + 0.1) of a is at least that of b, with 0.1 km half a
\* grid unit
score_at_least(a, b, pos) ==
    a.weight * (2 * haversine_distance(pos, b.coord) + 1)
        >= b.weight * (2 * haversine_distance(pos, a.coord) + 1)

\* a step of the selection loop that picks a candidate
greedy_pick_step ==
    /\ opc = "greedy"
    /\ opc' = "greedy"
    /\ selected' # selected

\* C23: the candidate picked at an iteration is unused and feasible, no
\* unused feasible candidate has a greater score, and the pick lowers the
\* remaining budget by exactly the distance from the previous position.
C23_PicksBestFeasible ==
    [][greedy_pick_step =>
         \E pick \in weighted_candidates :
             /\ pick.idx \notin used_indices
             /\ fits_budget(pick, current_pos, start_point, remaining_distance)
             /\ \A c \in weighted_candidates :
                   (c.idx \notin used_indices
                      /\ fits_budget(c, current_pos, start_point, remaining_distance))
                       => score_at_least(pick, c, current_pos)
             /\ selected' = Append(selected, pick.coord)
             /\ used_indices' = used_indices \cup {pick.idx}
             /\ current_pos' = pick.coord
             /\ remaining_distance' =
                    remaining_distance - haversine_distance(current_pos, pick.coord)]_vars

\* a second pick was made where a nearer feasible candidate had the lower
\* score and an infeasible candidate was passed over
C23_Witness ==
    /\ opc = "greedy"
    /\ Len(selected) = 2
    /\ ~prefer_unvisited
    /\ \E c \in tile_coords :
          /\ c.coord # selected[1]
          /\ c.weight = 1
          /\ haversine_distance(start_point, c.coord)
                < haversine_distance(start_point, selected[1])
          /\ fits_budget(c, start_point, start_point, target_distance)
    /\ \E c \in weighted_candidates :
          ~fits_budget(c, selected[1], start_point,
                       target_distance - haversine_distance(start_point, selected[1]))

\* a call of optimize_tile_coverage whose selection loop is not held up
SpecOptimizerFair ==
    SpecOptimizer /\ WF_vars(GreedyPick) /\ WF_vars(GreedyReturn)

\* C24: the selection loop ends; every iteration adds a pick and removes a
\* candidate; and when the loop has ended with fewer than max_tiles picks,
\* no unused candidate can be visited from the final position with the
\* start still in reach of the remaining budget.
C24_StopsOnlyWhenNothingFits ==
    /\ (opc = "greedy") ~> (opc = "path_call")
    /\ [][(opc = "greedy" /\ opc' = "greedy") =>
             /\ Len(selected') = Len(selected) + 1
             /\ Cardinality(weighted_candidates') < Cardinality(weighted_candidates)]_vars
    /\ []((opc = "path_call" /\ Len(selected) < max_tiles) =>
             \A c \in weighted_candidates :
                 c.idx \notin used_indices =>
                     ~fits_budget(c, current_pos, start_point, remaining_distance))
    /\ [](opc \in {"greedy", "path_call"} => Len(selected) <= max_tiles)

\* the loop ended after one pick with max_tiles = 3 and two candidates left
C24_Witness ==
    /\ opc = "path_call"
    /\ max_tiles = 3
    /\ Len(selected) = 1
    /\ Cardinality(weighted_candidates) = 2

\* the loop ended because max_tiles picks were made, a candidate still fitting
C24_WitnessCapReached ==
    /\ opc = "path_call"
    /\ max_tiles = 2
    /\ Len(selected) = 2
    /\ \E c \in weighted_candidates :
          fits_budget(c, current_pos, start_point, remaining_distance)

(***************************************************************************)
(* _optimize_path: the order of the waypoints.                             *)
(***************************************************************************)
\* position k of placed holds a waypoint that is nearest to the element
\* before it among the waypoints of given not placed before position k
\* (placed[1] is the start, so the first k - 2 waypoints were placed before)
nearest_of_the_rest(placed, given, k) ==
    \E rest \in SUBSET (1..Len(given)) :
        /\ Cardinality(rest) = Len(given) - (k - 2)
        /\ IsPermutation(SubSeq(placed, 2, k - 1) \o [n \in 1..Cardinality(rest) |->
                              given[SortedSeq(rest)[n]]],
                         given)
        /\ \E i \in rest :
              /\ placed[k] = given[i]
              /\ \A j \in rest :
                    haversine_distance(placed[k - 1], given[i])
                       <= haversine_distance(placed[k - 1], given[j])

\* C25: with 2 or more waypoints, every step of _optimize_path appends a
\* waypoint that is nearest to the last placed element among the waypoints
\* not yet placed and removes it from those; the returned list is start,
\* the waypoints in that order, start.
C25_NearestNeighbourOrder ==
    /\ [][(opc = "path" /\ opc' = "path") =>
             \E i \in 1..Len(unvisited) :
                 /\ \A k \in 1..Len(unvisited) :
                       haversine_distance(optimized[Len(optimized)], unvisited[i])
                          <= haversine_distance(optimized[Len(optimized)], unvisited[k])
                 /\ optimized' = Append(optimized, unvisited[i])
                 /\ unvisited' = RemoveAt(unvisited, i)]_vars
    /\ []((opc = "done" /\ Len(path_waypoints) >= 2) =>
             /\ Len(opt_result) = Len(path_waypoints) + 2
             /\ opt_result[1] = path_start
             /\ opt_result[Len(opt_result)] = path_start
             /\ \A k \in 2..(Len(opt_result) - 1) :
                   nearest_of_the_rest(opt_result, path_waypoints, k))

\* three waypoints were reordered: the one given last is placed first
C25_Witness ==
    /\ opc = "done"
    /\ Len(path_waypoints) = 3
    /\ Cardinality(Range(path_waypoints)) = 3
    /\ opt_result[2] = path_waypoints[3]
    /\ opt_result[4] = path_waypoints[1]
    /\ opt_result[5] = path_start

(***************************************************************************)
(* mapy_routing.py: _create_fallback_waypoints called on any list.         *)
(***************************************************************************)
\* longest list handed to _create_fallback_waypoints
MaxFallbackLen == 10

\* the lists handed to _create_fallback_waypoints
FallbackInputs ==
    {waypoint_list(pattern, n) : pattern \in StepPatterns, n \in 0..MaxFallbackLen}

\* the call of _create_fallback_waypoints
CreateFallbackWaypoints ==
    /\ f_pc = "call"
    /\ f_result' = create_fallback_waypoints(f_waypoints)
    /\ f_pc' = "done"
    /\ UNCHANGED f_waypoints
    /\ UNCHANGED nonFallbackVars

InitFallback ==
    /\ f_waypoints \in FallbackInputs
    /\ f_pc = "call"
    /\ f_result = <<>>
    /\ OptimizerUnused
    /\ ReducerUnused
    /\ RoutingUnused
    /\ QualityUnused
    /\ CenterUnused
    /\ ServerUnused

NextFallback == CreateFallbackWaypoints

SpecFallback == InitFallback /\ [][NextFallback]_vars

\* the 1-based positions of the interior elements the fallback keeps
fallback_interior(n) ==
    IF n <= 3 THEN [k \in 1..Max(0, n - 2) |-> k + 1]
    ELSE IF n <= 6 THEN <<(n \div 2) + 1>>
    ELSE <<(n \div 3) + 1, ((2 * n) \div 3) + 1>>

\* C26: the fallback of n waypoints is the list itself for n <= 3, first,
\* w[n div 2], last for 4 <= n <= 6 and first, w[n div 3], w[2n div 3],
\* last for n > 6 (0-based indices); the kept interior points stand at
\* increasing interior positions of the input.
C26_FallbackShape ==
    f_pc = "done" =>
        LET n == Len(f_waypoints)
            kept == fallback_interior(n)
        IN  /\ n <= 3 => f_result = f_waypoints
            /\ n >= 1 => /\ f_result[1] = f_waypoints[1]
                         /\ f_result[Len(f_result)] = f_waypoints[n]
            /\ n >= 2 => Len(f_result) = Len(kept) + 2
            /\ \A k \in 1..Len(kept) :
                  /\ 1 < kept[k]
                  /\ kept[k] < n
                  /\ k > 1 => kept[k - 1] < kept[k]
                  /\ f_result[k + 1] = f_waypoints[kept[k]]
            /\ (4 <= n /\ n <= 6) => Len(f_result) = 3
            /\ n > 6 => Len(f_result) = 4

\* a list of 10 different waypoints cut to four
C26_Witness ==
    /\ f_pc = "done"
    /\ Len(f_waypoints) = 10
    /\ Cardinality(Range(f_waypoints)) = 10
    /\ f_result = <<f_waypoints[1], f_waypoints[4], f_waypoints[7], f_waypoints[10]>>

\* a list of 5 different waypoints cut to three
C26_WitnessMiddle ==
    /\ f_pc = "done"
    /\ Len(f_waypoints) = 5
    /\ Cardinality(Range(f_waypoints)) = 5
    /\ f_result = <<f_waypoints[1], f_waypoints[3], f_waypoints[5]>>

(***************************************************************************)
(* Further claims about route generation.                                  *)
(***************************************************************************)
\* C27: every list sent to a routing backend, by a first attempt or by a
\* retry, has at most 15 waypoints for Mapy.cz and at most 50 for
\* OpenRouteService.
C27_SentWithinCap ==
    \A k \in 1..Len(q_sent) :
        /\ q_service = "mapy" => Len(q_sent[k]) <= 15
        /\ q_service = "openroute" => Len(q_sent[k]) <= 50

\* Mapy.cz was sent 15 of 51 waypoints and, after a rejection, the fallback
C27_Witness ==
    /\ q_service = "mapy"
    /\ Len(q_waypoints) = LongRouteLen
    /\ Len(q_sent) = 2
    /\ Len(q_sent[1]) = 15
    /\ Len(q_sent[2]) = 4

\* OpenRouteService was sent the first 50 of 51 waypoints
C27_WitnessOpenRoute ==
    /\ q_service = "openroute"
    /\ Len(q_waypoints) = LongRouteLen
    /\ Len(q_sent) >= 1
    /\ q_sent[1] = SubSeq(q_waypoints, 1, 50)

\* a call of generate_route whose backend answers every request
SpecRoutingFair == SpecRouting /\ WF_vars(MapyRespond)

\* C28: a call of MapyRouteService.generate_route ends whatever the backend
\* answers; a fallback retry is made only for a rejected list of more than
\* 3 waypoints and with a strictly shorter list; and a call whose every
\* request was rejected with status 400 ends with an error.
C28_FallbackTerminates ==
    /\ (q_service = "mapy" /\ q_pc = "awaiting") ~> (q_pc = "ended")
    /\ [][(q_service = "mapy" /\ q_pc = "awaiting" /\ q_pc' = "awaiting") =>
             /\ Len(q_stack') = Len(q_stack) + 1
             /\ Len(q_stack[Len(q_stack)]) > 3
             /\ Len(q_stack'[Len(q_stack')]) < Len(q_stack[Len(q_stack)])]_vars
    /\ [][(q_service = "mapy" /\ q_pc = "awaiting" /\ q_pc' = "ended"
              /\ Len(q_stack) > 1) =>
             q_errors' = Append(q_errors, "invalid_params")
                \/ q_errors' = Append(q_errors, "ok")]_vars
    /\ [](Len(q_stack) <= 3)

\* three requests were rejected, the last with 3 waypoints, and the call
\* ended with the error
C28_Witness ==
    /\ q_service = "mapy"
    /\ q_pc = "ended"
    /\ Len(q_calls) = 1
    /\ Len(q_sent) = 3
    /\ Len(q_sent[1]) = 15
    /\ Len(q_sent[2]) = 4
    /\ Len(q_sent[3]) = 3
    /\ q_errors = <<"invalid_params">>

(***************************************************************************)
(* The sampling and the corridor strategy keep input points in order.      *)
(***************************************************************************)
\* the elements of out from position k on are found, in order, in inp from
\* position j on
RECURSIVE embeds_from(_, _, _, _)
embeds_from(out, k, inp, j) ==
    IF k > Len(out) THEN TRUE
    ELSE IF j > Len(inp) THEN FALSE
    ELSE IF out[k] = inp[j] THEN embeds_from(out, k + 1, inp, j + 1)
    ELSE embeds_from(out, k, inp, j + 1)

\* positions of a list of length n, each greater than the one before
strictly_increasing_within(idx, n) ==
    /\ \A k \in 1..Len(idx) : idx[k] \in 1..n
    /\ \A k \in 1..(Len(idx) - 1) : idx[k] < idx[k + 1]

\* C29: what reduce_waypoints returns under the sampling and the corridor
\* strategy is the input taken at strictly increasing positions; the
\* positions the corridor strategy keeps are strictly increasing at every
\* point of its loop.
C29_OutputIsSubsequence ==
    /\ (rpc = "done" /\ r_chosen \in {"sampling", "corridor"}
           /\ r_result.kind = "return") =>
          embeds_from(r_result.value, 1, r_waypoints, 1)
    /\ (rpc \in {"corridor_fill", "done"} /\ r_chosen = "corridor"
           /\ Len(r_waypoints) > MAPY_MAX_WAYPOINTS) =>
          /\ strictly_increasing_within(important_indices, Len(r_waypoints))
          /\ rpc = "done" =>
                r_result.value = [k \in 1..Len(important_indices) |->
                                     r_waypoints[important_indices[k]]]

\* the corridor strategy returned 15 of 17 different waypoints
C29_Witness ==
    /\ rpc = "done"
    /\ r_chosen = "corridor"
    /\ Len(r_waypoints) = 17
    /\ Cardinality(Range(r_waypoints)) = 17
    /\ Len(r_result.value) = 15
    /\ Cardinality(Range(r_result.value)) = 15
    /\ r_result.value # SubSeq(r_waypoints, 1, 15)

\* the sampling strategy returned fewer points than 15, in input order
C29_WitnessSampling ==
    /\ rpc = "done"
    /\ r_chosen = "sampling"
    /\ Len(r_waypoints) = 17
    /\ Cardinality(Range(r_waypoints)) > 6
    /\ Len(r_result.value) < 15
    /\ Len(r_result.value) > 3

\* the request handler passed a loop that optimize_tile_coverage closed at
\* the start point, and the service sent a first list to its backend
loop_request_sent ==
    /\ q_layer = "request"
    /\ Len(q_sent) >= 1
    /\ Len(q_waypoints) >= 2
    /\ q_waypoints[Len(q_waypoints)] = q_waypoints[1]

\* C30 as stated: the first list sent to the backend for a loop begins and
\* ends with the start point, for both services and every length of loop.
C30_FirstRequestKeepsLoop ==
    loop_request_sent =>
        /\ q_sent[1][1] = q_waypoints[1]
        /\ q_sent[1][Len(q_sent[1])] = q_waypoints[1]

\* C30: the first list sent always begins with the start point.  Mapy.cz's
\* list also ends with it, and so does OpenRouteService's for a loop of at
\* most 50 waypoints; a longer loop is sent to OpenRouteService as its first
\* 50 waypoints, whose last is the loop's 50th and not its closing point.
C30_LoopKeptUnlessCut ==
    loop_request_sent =>
        /\ q_sent[1][1] = q_waypoints[1]
        /\ (q_service = "mapy" \/ Len(q_waypoints) <= ORS_WAYPOINT_LIMIT) =>
              q_sent[1][Len(q_sent[1])] = q_waypoints[1]
        /\ (q_service = "openroute" /\ Len(q_waypoints) > ORS_WAYPOINT_LIMIT) =>
              q_sent[1] = SubSeq(q_waypoints, 1, ORS_WAYPOINT_LIMIT)

\* OpenRouteService was sent a loop of 51 waypoints without its closing point
C30_WitnessCut ==
    /\ loop_request_sent
    /\ q_service = "openroute"
    /\ Len(q_waypoints) = LongRouteLen
    /\ Len(q_sent[1]) = ORS_WAYPOINT_LIMIT
    /\ q_sent[1][ORS_WAYPOINT_LIMIT] # q_waypoints[1]

\* Mapy.cz was sent a reduced loop of 51 waypoints that is still closed
C30_WitnessMapy ==
    /\ loop_request_sent
    /\ q_service = "mapy"
    /\ Len(q_waypoints) = LongRouteLen
    /\ Len(q_sent[1]) <= MAPY_MAX_WAYPOINTS
    /\ Cardinality(Range(q_sent[1])) > 2
    /\ q_sent[1][Len(q_sent[1])] = q_waypoints[1]

====
